---- MODULE Spec2Model ----
(***************************************************************************)
(* Gateway codec, drive state machine and motion sequences of the          *)
(* robot-aux-control scripts.  The repository holds several variants of    *)
(* the same procedures; each variant that a property is about is modelled  *)
(* from its own source file and runs under its own specification:          *)
(*   SpecClassify  decode_statusword over every 16-bit statusword          *)
(*   SpecCodec     one read/write call against one peer response           *)
(*   SpecBringUp   go_through_state_machine / initialize_motor             *)
(*   SpecPanel     the PyQt5 motor panel (archive/pyqt5_test.py)           *)
(*   SpecGantry    the arrow-key gantry jogger (yz-gantry-control*.py)    *)
(*   SpecSync      test_both_axes_in_sync (unit_test2.py)                  *)
(* Python's None is the integer None (-1); no value read is negative.      *)
(***************************************************************************)
EXTENDS Integers, Sequences, FiniteSets, TLC

VARIABLES
    script,     \* the procedure or program that is running
    pc,         \* its position
    result,     \* what the procedure returned ("none" while it runs)
    status,     \* per axis: the last value read_statusword returned
    log,        \* the read/write calls made so far, in order
    seen,       \* bring-up: the values its statusword reads returned, in order
    polls,      \* poll-loop: passes made so far that did not break
    calls,      \* event-loop programs: handler calls so far
    sw,         \* classifier input (a statusword)
    cls,        \* classifier output
    req,        \* codec call: [fn, index, sub, size, value]
    resp,       \* codec call: what the transport gave back
    ret,        \* codec call: the returned value
    msg,        \* codec call: the diagnostic printed / emitted
    done2,      \* two-axis test: "Both movements completed" was printed
    faultAt,    \* two-axis test: Len(log) when a poll first read a Fault (0: none)
    tid,        \* per client: its transaction_id counter
    frame       \* per client: the last frame it handed to the socket (<< >>: none)

vars == <<script, pc, result, status, log, seen, polls, calls, sw, cls,
          req, resp, ret, msg, done2, faultAt, tid, frame>>

----------------------------------------------------------------------------
(* Integers as bit vectors *)

RECURSIVE BitAnd(_, _)
BitAnd(a, b) ==
    IF a = 0 \/ b = 0 THEN 0
    ELSE (a % 2) * (b % 2) + 2 * BitAnd(a \div 2, b \div 2)

RECURSIVE BitOr(_, _)
BitOr(a, b) ==
    IF a = 0 THEN b
    ELSE IF b = 0 THEN a
    ELSE (IF a % 2 = 1 \/ b % 2 = 1 THEN 1 ELSE 0) + 2 * BitOr(a \div 2, b \div 2)

RECURSIVE Pow2(_)
Pow2(n) == IF n = 0 THEN 1 ELSE 2 * Pow2(n - 1)

\* (v >> k) & 0xFF
ByteOf(v, k) == (v \div Pow2(8 * k)) % 256

None == -1

----------------------------------------------------------------------------
(* DeviceStateMachine: statusword classification *)

STATE_NOT_READY == 0
STATE_SWITCH_ON_DISABLED == 1
STATE_READY_TO_SWITCH_ON == 2
STATE_SWITCHED_ON == 3
STATE_OPERATION_ENABLED == 4
STATE_FAULT == 5
STATE_UNKNOWN == 6

\* a plausible slip: the fault pattern tested under the 0x006F mask, as the
\* neighbouring branches are
decode_statusword_mask6F(statusword) ==
    IF BitAnd(statusword, \h004F) = \h0000 THEN STATE_NOT_READY
    ELSE IF BitAnd(statusword, \h004F) = \h0040 THEN STATE_SWITCH_ON_DISABLED
    ELSE IF BitAnd(statusword, \h006F) = \h0021 THEN STATE_READY_TO_SWITCH_ON
    ELSE IF BitAnd(statusword, \h006F) = \h0023 THEN STATE_SWITCHED_ON
    ELSE IF BitAnd(statusword, \h006F) = \h0027 THEN STATE_OPERATION_ENABLED
    ELSE IF BitAnd(statusword, \h006F) = \h0008 THEN STATE_FAULT
    ELSE STATE_UNKNOWN

\* diag2.py decode_statusword: the state it names (the if/elif chain, in the
\* source's order)
decode_statusword(statusword) ==
    IF BitAnd(statusword, \h004F) = \h0000 THEN STATE_NOT_READY
    ELSE IF BitAnd(statusword, \h004F) = \h0040 THEN STATE_SWITCH_ON_DISABLED
    ELSE IF BitAnd(statusword, \h006F) = \h0021 THEN STATE_READY_TO_SWITCH_ON
    ELSE IF BitAnd(statusword, \h006F) = \h0023 THEN STATE_SWITCHED_ON
    ELSE IF BitAnd(statusword, \h006F) = \h0027 THEN STATE_OPERATION_ENABLED
    ELSE IF BitAnd(statusword, \h004F) = \h0008 THEN STATE_FAULT
    ELSE STATE_UNKNOWN

\* The priority-ordered rule of the design (section 4.3), first match wins.
PriorityRule(s) ==
    IF BitAnd(s, \h004F) = \h0008 THEN STATE_FAULT
    ELSE IF BitAnd(s, \h006F) = \h0027 THEN STATE_OPERATION_ENABLED
    ELSE IF BitAnd(s, \h006F) = \h0023 THEN STATE_SWITCHED_ON
    ELSE IF BitAnd(s, \h006F) = \h0021 THEN STATE_READY_TO_SWITCH_ON
    ELSE IF BitAnd(s, \h004F) = \h0040 THEN STATE_SWITCH_ON_DISABLED
    ELSE IF BitAnd(s, \h004F) = \h0000 THEN STATE_NOT_READY
    ELSE STATE_UNKNOWN

\* the statusword is two bytes: response[19] | (response[20] << 8)
StatuswordBits == 16

Statuswords16 == 0 .. (Pow2(StatuswordBits) - 1)

----------------------------------------------------------------------------
(* FrameCodec: what the transport gives back, and how each reader decodes it *)

\* response[i], Python's zero-based indexing
At(bytes, i) == bytes[i + 1]

\* value |= response[off + i] << (8 * i)  for i in range(size)
RECURSIVE LittleEndian(_, _, _)
LittleEndian(bytes, off, size) ==
    IF size = 0 THEN 0
    ELSE At(bytes, off) + 256 * LittleEndian(bytes, off + 1, size - 1)

RECURSIVE ValueBytes(_, _)
ValueBytes(value, size) ==
    IF size = 0 THEN << >>
    ELSE <<value % 256>> \o ValueBytes(value \div 256, size - 1)

\* sock.recv(...) returned bytes
Received(bytes) == [kind |-> "bytes", bytes |-> bytes]

\* sock.send / sock.recv raised (timeout, reset, closed socket)
TransportError == [kind |-> "error", bytes |-> << >>]

\* The gateway's answer to a read, in the layout the vendor sample compares
\* against: header, 0x2B 0x0D, the object locator, the byte count, the data.
ReadReply(index, sub, size, value) ==
    <<0, 0, 0, 0, 0, 13 + size, 0, \h2B, \h0D, 0, 0, 0,
      (index \div 256) % 256, index % 256, sub, 0, 0, 0, size>>
    \o ValueBytes(value, size)

\* The gateway's acknowledgement of a write: the request's first 19 bytes.
WriteAck(index, sub, size) ==
    <<0, 0, 0, 0, 0, 13, 0, \h2B, \h0D, 1, 0, 0,
      (index \div 256) % 256, index % 256, sub, 0, 0, 0, size>>

\* A Modbus exception response: function code with bit 7 set, then the code.
ExceptionReply(code) == <<0, 0, 0, 0, 0, 3, 0, \hAB, code>>

\* a plausible slip: the payload taken two bytes early, at offset 17
read_object_offset17(r, size) ==
    IF r.kind = "error" THEN None
    ELSE IF Len(r.bytes) >= 17 + size THEN LittleEndian(r.bytes, 17, size)
    ELSE None

\* diag2.py / pyqt5_test.py read_object: the value returned
read_object(r, size) ==
    IF r.kind = "error" THEN None
    ELSE IF Len(r.bytes) >= 19 + size THEN LittleEndian(r.bytes, 19, size)
    ELSE None

\* ... and the diagnostic it prints (pyqt5_test.py emits it as status_update)
read_object_msg(r, size) ==
    IF r.kind = "error" THEN "Error reading object"
    ELSE IF Len(r.bytes) >= 19 + size THEN "value"
    ELSE "Response too short"

\* a plausible slip: the length test of a one-byte object, len(response) >= 20
read_statusword_len20(r) ==
    IF r.kind = "error" THEN None
    ELSE IF Len(r.bytes) >= 21 THEN At(r.bytes, 19) + 256 * At(r.bytes, 20)
    ELSE IF Len(r.bytes) >= 20 THEN At(r.bytes, 19)
    ELSE None

\* diag.py / diag2.py / unit_test2.py read_statusword: the value returned
read_statusword(r) ==
    IF r.kind = "error" THEN None
    ELSE IF Len(r.bytes) >= 21 THEN At(r.bytes, 19) + 256 * At(r.bytes, 20)
    ELSE None

read_statusword_msg(r) ==
    IF r.kind = "error" THEN "Error reading statusword"
    ELSE IF Len(r.bytes) >= 21 THEN "Statusword"
    ELSE "Response too short"

\* yz-gantry-control_v9.py ModbusGatewayClient.read_object: always two bytes
v9_read_object(connected, r) ==
    IF ~connected THEN None
    ELSE IF r.kind = "error" THEN None
    ELSE IF Len(r.bytes) >= 21
         THEN IF At(r.bytes, 7) = \h2B
              THEN At(r.bytes, 19) + 256 * At(r.bytes, 20)
              ELSE None
    ELSE None

v9_read_object_msg(connected, r) ==
    IF ~connected THEN "Not connected to controller"
    ELSE IF r.kind = "error" THEN "Error reading object"
    ELSE IF Len(r.bytes) >= 21
         THEN IF At(r.bytes, 7) = \h2B THEN "value" ELSE "Modbus error code"
    ELSE "Invalid response length"

\* unit_test2.py / diag.py write_controlword and write_object: True unless the
\* socket raised
write_controlword(r) == r.kind # "error"

\* struct.pack(fmt, *args): fmt as the byte widths of its fields.  It raises
\* struct.error when the number of arguments is not the number of fields or
\* an argument does not fit its (unsigned) field.
StructPacks(fmt, args) ==
    /\ Len(fmt) = Len(args)
    /\ \A i \in 1 .. Len(fmt) : 0 <= args[i] /\ args[i] < Pow2(8 * fmt[i])

\* '>HHHBBBBHBBHH', the header format of unit_test.py read_statusword and
\* write_controlword, and '>HHHBBBBHBB', that of its write_object
UT_HEADER_FORMAT == <<2, 2, 2, 1, 1, 1, 1, 2, 1, 1, 2, 2>>
UT_WRITE_FORMAT == <<2, 2, 2, 1, 1, 1, 1, 2, 1, 1>>

\* unit_test.py builds its requests inside the try block: the object index
\* meets a one-byte field (read_statusword, write_controlword) or there is one
\* argument too many (write_object), struct.error is caught, nothing is sent
ut_read_request_packs ==
    StructPacks(UT_HEADER_FORMAT, <<0, 0, 13, 0, 43, 13, 0, 0, \h6041, 0, 0, 2>>)

ut_controlword_request_packs ==
    StructPacks(UT_HEADER_FORMAT, <<0, 0, 15, 0, 43, 13, 1, 0, \h6040, 0, 0, 2>>)

ut_write_request_packs(index, sub_index, size) ==
    StructPacks(UT_WRITE_FORMAT,
                <<0, 0, 13 + size, 0, 43, 13, 1, 0, index, sub_index, 0>>)

\* unit_test.py read_statusword
ut_read_statusword(r) ==
    IF ~ut_read_request_packs THEN None
    ELSE IF r.kind = "error" THEN None
    ELSE IF Len(r.bytes) >= 21 THEN LittleEndian(r.bytes, 19, 2)
    ELSE None

\* unit_test.py write_controlword: len(response) >= 13
ut_write_controlword(r) ==
    ut_controlword_request_packs /\ r.kind # "error" /\ Len(r.bytes) >= 13

\* unit_test.py write_object: len(response) >= 13
ut_write_object(index, sub_index, size, r) ==
    /\ ut_write_request_packs(index, sub_index, size)
    /\ r.kind # "error"
    /\ Len(r.bytes) >= 13

\* pyqt5_test.py ModbusTCPGateway.write_object
gw_write_object(connected, r) == connected /\ r.kind # "error"

\* a 16-bit header field, big-endian: (v >> 8) & 0xFF, v & 0xFF
BigEndian16(v) == <<(v \div 256) % 256, v % 256>>

\* a plausible slip: the most significant byte first
BigEndianBytes(value, size) == [i \in 1 .. size |-> ByteOf(value, size - i)]

\* for i in range(size): (value >> (8*i)) & 0xFF
LittleEndianBytes(value, size) == [i \in 1 .. size |-> ByteOf(value, i - 1)]

\* enhanced_unit_test_v6.py build_read_packet (the same bytes diag2.py
\* read_object and read_statusword send): no test of size
build_read_packet(index, sub_index, size) ==
    <<\h00, \h0F, \h00, \h00, \h00, \h0D, \h00, \h2B, \h0D, \h00, \h00, \h00>>
    \o BigEndian16(index) \o <<sub_index, \h00, \h00, \h00, size>>

\* enhanced_unit_test_v6.py build_write_packet (the same bytes diag2.py
\* write_object sends): no test of size
build_write_packet(index, sub_index, value, size) ==
    <<\h00, \h0F, \h00, \h00, \h00, \h0D + size, \h00, \h2B, \h0D, \h01, \h00, \h00>>
    \o BigEndian16(index) \o <<sub_index, \h00, \h00, \h00, size>>
    \o LittleEndianBytes(value, size)

\* pyqt5_test.py ModbusTCPGateway.read_object / write_object: the packet
gw_read_packet(t, index, subindex, size) ==
    BigEndian16(t) \o <<\h00, \h00, \h00, \h0D, \h00, \h2B, \h0D, \h00, \h00, \h00>>
    \o BigEndian16(index) \o <<subindex, \h00, \h00, \h00, size>>

gw_write_packet(t, index, subindex, value, size) ==
    BigEndian16(t)
    \o <<\h00, \h00, \h00, \h0D + size, \h00, \h2B, \h0D, \h01, \h00, \h00>>
    \o BigEndian16(index) \o <<subindex, \h00, \h00, \h00, size>>
    \o LittleEndianBytes(value, size)

\* yz-gantry-control_v9.py read_object: header '>HHHB' and twelve data bytes,
\* the last four of them padding (the byte count it sends is 0)
v9_read_packet(t, index, subindex) ==
    BigEndian16(t) \o BigEndian16(0) \o BigEndian16(13) \o <<0>>
    \o <<43, 13, 0, 0, 0>> \o BigEndian16(index) \o <<subindex, 0, 0, 0, 0>>

\* yz-gantry-control_v9.py write_object: data & 0xFF / 0xFFFF / 0xFFFFFFFF
\* packed '<B' / '<H' / '<I'; any other data_size returns False before a
\* packet exists
v9_size_supported(data_size) == data_size \in {1, 2, 4}

\* a plausible slip: the length of a read frame in the header of a write
v9_write_packet_length13(t, index, subindex, data, data_size) ==
    BigEndian16(t) \o BigEndian16(0) \o BigEndian16(13) \o <<0>>
    \o <<43, 13, 1, 0, 0>> \o BigEndian16(index)
    \o <<subindex, 0, 0, 0, data_size>>
    \o LittleEndianBytes(data, data_size)

v9_write_packet(t, index, subindex, data, data_size) ==
    BigEndian16(t) \o BigEndian16(0) \o BigEndian16(13 + data_size) \o <<0>>
    \o <<43, 13, 1, 0, 0>> \o BigEndian16(index)
    \o <<subindex, 0, 0, 0, data_size>>
    \o LittleEndianBytes(data, data_size)

\* enhanced_unit_test_v6.py read_statusword: a reply under 18 bytes is taken
\* for a plain Modbus answer; otherwise as diag2.py
v6_read_statusword(r) ==
    IF r.kind = "error" THEN None
    ELSE IF Len(r.bytes) < 18 THEN None
    ELSE IF Len(r.bytes) >= 21 THEN At(r.bytes, 19) + 256 * At(r.bytes, 20)
    ELSE None

v6_read_statusword_msg(r) ==
    IF r.kind = "error" THEN "Error reading statusword"
    ELSE IF Len(r.bytes) < 18 THEN "Received a standard Modbus response"
    ELSE IF Len(r.bytes) >= 21 THEN "Statusword"
    ELSE "Response too short"

\* diag2.py write_object: if response[7] & 0x80: return False (response[7]
\* of a reply under 8 bytes raises IndexError, caught: False)
d2_write_object(r) ==
    /\ r.kind # "error"
    /\ Len(r.bytes) >= 8
    /\ BitAnd(At(r.bytes, 7), \h80) = 0

d2_write_object_msg(r) ==
    IF r.kind = "error" \/ Len(r.bytes) < 8 THEN "Error writing object"
    ELSE IF BitAnd(At(r.bytes, 7), \h80) # 0 THEN "ERROR: Failed to write object"
    ELSE "written"

v9_write_object_msg(connected, r) ==
    IF ~connected THEN "Not connected to controller"
    ELSE IF r.kind = "error" THEN "Error writing object"
    ELSE IF Len(r.bytes) >= 8
         THEN IF At(r.bytes, 7) = \h2B THEN "successful" ELSE "Modbus error code"
    ELSE "Invalid response length"

\* a plausible slip: the function code looked for one byte late
v9_write_object_fc_at8(connected, r) ==
    /\ connected
    /\ r.kind # "error"
    /\ Len(r.bytes) >= 9
    /\ At(r.bytes, 8) = \h2B

\* yz-gantry-control_v9.py ModbusGatewayClient.write_object (data_size in 1,2,4)
v9_write_object(connected, r) ==
    /\ connected
    /\ r.kind # "error"
    /\ Len(r.bytes) >= 8
    /\ At(r.bytes, 7) = \h2B

----------------------------------------------------------------------------
(* Values shared by the specifications *)

Axes == {"y", "z"}

NoStatus == [a \in Axes |-> None]

NoReq == [fn |-> "none", index |-> 0, sub |-> 0, size |-> 0, value |-> 0]

\* the variables a specification does not use keep these values
BehaviourIdle ==
    /\ result = "none"
    /\ status = NoStatus
    /\ log = << >>
    /\ seen = << >>
    /\ polls = 0
    /\ calls = 0
    /\ done2 = FALSE
    /\ faultAt = 0

ClassifyIdle == sw = 0 /\ cls = None

FrameIdle == tid = [c \in Axes |-> 0] /\ frame = [c \in Axes |-> << >>]

CodecIdle == req = NoReq /\ resp = TransportError /\ ret = None /\ msg = ""

behaviourVars == <<result, status, log, seen, polls, calls, done2, faultAt>>
classifyVars == <<sw, cls>>
codecVars == <<req, resp, ret, msg>>
frameVars == <<tid, frame>>

\* pyqt5_test.py update_state_display: the text it puts on the state label
update_state_display(statusword) ==
    LET s == BitAnd(statusword, \h006F) IN
    CASE s = \h0000 -> "Not ready to switch on"
      [] s = \h0040 -> "Switch on disabled"
      [] s = \h0021 -> "Ready to switch on"
      [] s = \h0023 -> "Switched on"
      [] s = \h0027 -> "Operation enabled"
      [] s = \h0007 -> "Quick stop active"
      [] s = \h000F -> "Fault reaction active"
      [] s = \h0008 -> "Fault"
      [] OTHER -> "Unknown"

----------------------------------------------------------------------------
(* SpecClassify: decode_statusword applied to every 16-bit statusword *)

InitClassify ==
    /\ script = "classify"
    /\ pc = "input"
    /\ sw \in Statuswords16
    /\ cls = None
    /\ BehaviourIdle
    /\ FrameIdle
    /\ CodecIdle

Classify ==
    /\ script = "classify"
    /\ pc = "input"
    /\ cls' = decode_statusword(sw)
    /\ pc' = "classified"
    /\ UNCHANGED <<script, sw>>
    /\ UNCHANGED behaviourVars
    /\ UNCHANGED frameVars
    /\ UNCHANGED codecVars

\* the panel of pyqt5_test.py shows the same statusword: the text
\* update_state_display puts on the state label
Display ==
    /\ script = "classify"
    /\ pc = "classified"
    /\ msg' = update_state_display(sw)
    /\ pc' = "displayed"
    /\ UNCHANGED <<script, req, resp, ret>>
    /\ UNCHANGED classifyVars
    /\ UNCHANGED behaviourVars
    /\ UNCHANGED frameVars

NextClassify == Classify \/ Display

SpecClassify == InitClassify /\ [][NextClassify]_vars

----------------------------------------------------------------------------
(* SpecCodec: one read call, decoded from one response of the transport *)

\* trailing bytes a response may carry beyond the frame
MaxExtra == 2

\* object values the peer may hold (up to four bytes; TLC's integers end at
\* 2^31 - 1)
ValuePool == {\h00000000, \h00000027, \h00000627, \h00010203, \h7F0000FF}

\* the size of the objects the calls are about
ObjectSize(index) ==
    CASE index = \h6040 -> 2
      [] index = \h6041 -> 2
      [] index = \h6060 -> 1
      [] index = \h6061 -> 1
      [] OTHER -> 4

ReadRequest(fn, index, sub, size) ==
    [fn |-> fn, index |-> index, sub |-> sub, size |-> size, value |-> 0]

WriteRequest(fn, index, sub, size, value) ==
    [fn |-> fn, index |-> index, sub |-> sub, size |-> size, value |-> value]

\* values written: a controlword, a target of 1000, one beyond two bytes, a
\* negative jog distance
WriteValues == {\h000F, 1000, 70000, -10}

WriteFunctions == {"write_controlword", "write_object", "v9_write_object"}

ReadRequests ==
    {ReadRequest("read_statusword", \h6041, 0, 2),
     ReadRequest("v6_read_statusword", \h6041, 0, 2),
     ReadRequest("v9_read_object", \h6041, 0, 2),
     ReadRequest("v9_read_object", \h6064, 0, 2),
     ReadRequest("read_object", \h6041, 0, 2),
     ReadRequest("read_object", \h6061, 0, 1),
     ReadRequest("read_object", \h6064, 0, 4),
     ReadRequest("read_object", \h6092, 1, 4)}

WriteRequests ==
    {WriteRequest("write_controlword", \h6040, 0, 2, v) : v \in {\h0006, \h000F}}
    \cup {WriteRequest(fn, \h6040, 0, 2, \h001F) :
             fn \in {"write_object", "v9_write_object"}}
    \cup {WriteRequest(fn, \h6060, 0, 1, 1) :
             fn \in {"write_object", "v9_write_object"}}
    \cup {WriteRequest(fn, \h607A, 0, 4, v) :
             fn \in {"write_object", "v9_write_object"}, v \in WriteValues}

Requests == ReadRequests \cup WriteRequests

RECURSIVE Zeros(_)
Zeros(n) == IF n = 0 THEN << >> ELSE <<0>> \o Zeros(n - 1)

\* with byte 7 (the function code) replaced
WithFunctionCode(bytes, fc) ==
    [i \in 1 .. Len(bytes) |-> IF i = 8 THEN fc ELSE bytes[i]]

\* Everything the transport may give back to read request q: the full answer
\* (of the size asked for, and of the object's own size), every truncation of
\* it (a plain-Modbus fallback answers in 9 or 11 bytes), the answer with
\* trailing bytes, an exception response short or padded to the frame's
\* length, or a socket error.
RepliesFor(q) ==
    LET full(v) == ReadReply(q.index, q.sub, q.size, v)
    IN  {TransportError}
        \cup {Received(SubSeq(full(v), 1, n)) :
                 v \in ValuePool, n \in 0 .. (19 + q.size)}
        \cup {Received(full(v) \o Zeros(n)) : v \in ValuePool, n \in 1 .. MaxExtra}
        \cup {Received(ReadReply(q.index, q.sub, ObjectSize(q.index), v)) :
                 v \in ValuePool}
        \cup {Received(ExceptionReply(c)) : c \in {1, 2, 4}}
        \cup {Received(WithFunctionCode(full(v), \hAB)) : v \in ValuePool}

\* the write frame of request q as the peer echoes it
EchoOf(q) == build_write_packet(q.index, q.sub, q.value, q.size)

\* Everything the transport may give back to write request q: the echo of the
\* frame, every truncation of it (the 19-byte acknowledgement among them),
\* an exception response short or as long as the frame, or a socket error.
WriteRepliesFor(q) ==
    {TransportError}
    \cup {Received(SubSeq(EchoOf(q), 1, n)) : n \in 0 .. Len(EchoOf(q))}
    \cup {Received(ExceptionReply(c)) : c \in {1, 2, 4}}
    \cup {Received(WithFunctionCode(EchoOf(q), \hAB))}

InitCodec ==
    /\ script = "codec"
    /\ pc = "call"
    /\ req \in Requests
    /\ resp \in (IF req.fn \in WriteFunctions THEN WriteRepliesFor(req)
                 ELSE RepliesFor(req))
    /\ ret = None
    /\ msg = ""
    /\ BehaviourIdle
    /\ ClassifyIdle
    /\ FrameIdle

\* what a call of the codec leaves alone
CodecFrame ==
    /\ script = "codec" /\ pc = "call"
    /\ pc' = "returned"
    /\ UNCHANGED <<script, req, resp>>
    /\ UNCHANGED <<status, log, seen, polls, calls, done2, faultAt>>
    /\ UNCHANGED classifyVars
    /\ UNCHANGED frameVars

BoolText(b) == IF b THEN "True" ELSE "False"

call_read_statusword ==
    /\ CodecFrame
    /\ req.fn = "read_statusword"
    /\ ret' = read_statusword(resp)
    /\ msg' = read_statusword_msg(resp)
    /\ UNCHANGED result

call_v6_read_statusword ==
    /\ CodecFrame
    /\ req.fn = "v6_read_statusword"
    /\ ret' = v6_read_statusword(resp)
    /\ msg' = v6_read_statusword_msg(resp)
    /\ UNCHANGED result

call_read_object ==
    /\ CodecFrame
    /\ req.fn = "read_object"
    /\ ret' = read_object(resp, req.size)
    /\ msg' = read_object_msg(resp, req.size)
    /\ UNCHANGED result

call_v9_read_object ==
    /\ CodecFrame
    /\ req.fn = "v9_read_object"
    /\ ret' = v9_read_object(TRUE, resp)
    /\ msg' = v9_read_object_msg(TRUE, resp)
    /\ UNCHANGED result

\* diag2.py write_controlword: the response is received and not looked at
call_write_controlword ==
    /\ CodecFrame
    /\ req.fn = "write_controlword"
    /\ result' = BoolText(write_controlword(resp))
    /\ msg' = IF write_controlword(resp) THEN "" ELSE "Error writing controlword"
    /\ UNCHANGED ret

\* diag2.py write_object
call_write_object ==
    /\ CodecFrame
    /\ req.fn = "write_object"
    /\ result' = BoolText(d2_write_object(resp))
    /\ msg' = d2_write_object_msg(resp)
    /\ UNCHANGED ret

call_v9_write_object ==
    /\ CodecFrame
    /\ req.fn = "v9_write_object"
    /\ result' = BoolText(v9_size_supported(req.size) /\ v9_write_object(TRUE, resp))
    /\ msg' = v9_write_object_msg(TRUE, resp)
    /\ UNCHANGED ret

NextCodec ==
    \/ call_read_statusword
    \/ call_v6_read_statusword
    \/ call_read_object
    \/ call_v9_read_object
    \/ call_write_controlword
    \/ call_write_object
    \/ call_v9_write_object

SpecCodec == InitCodec /\ [][NextCodec]_vars

----------------------------------------------------------------------------
(* SpecFrames: the request frames the clients put on the wire, and their
   transaction identifiers *)

\* calls made in one run
MaxFrames == 2

\* diag2.py (enhanced_unit_test_v6.py has the same read_object and
\* write_object), pyqt5_test.py ModbusTCPGateway, yz-gantry-control_v9.py
\* ModbusGatewayClient, unit_test.py
FrameScripts == {"diag2", "pyqt5_test", "v9", "unit_test"}

\* the size argument: the three object sizes and one that is none of them
FrameSizes == {1, 2, 3, 4}

\* a value that fits two bytes, one that does not fit, a negative one
FrameValues == {1000, 70000, -10}

FrameReadIndexes == {\h6041, \h6064}

FrameRequest(fn, c, index, sub, size, value) ==
    [fn |-> fn, client |-> c, index |-> index, sub |-> sub, size |-> size,
     value |-> value]

\* the peer answers a read with the object, a write with the echo of the
\* frame, or the socket raises
FrameReadReplies(index, sub, size) ==
    {TransportError, Received(ReadReply(index, sub, size, \h00010203))}

FrameWriteReplies(packet) == {TransportError, Received(packet)}

\* a client that has made 65534 calls is one call before the largest
\* transaction identifier
InitFrames ==
    /\ script \in FrameScripts
    /\ pc = "client"
    /\ tid \in [Axes -> {0, 65534}]
    /\ script \in {"diag2", "unit_test"} => tid = [c \in Axes |-> 0]
    /\ frame = [c \in Axes |-> << >>]
    /\ BehaviourIdle
    /\ ClassifyIdle
    /\ CodecIdle

\* what a call of a client leaves alone
FramesFrame ==
    /\ pc = "client"
    /\ calls < MaxFrames
    /\ calls' = calls + 1
    /\ UNCHANGED <<script, pc, status, log, seen, polls, done2, faultAt>>
    /\ UNCHANGED classifyVars

\* diag2.py read_object(sock, index, sub_index, size)
d2_read_object_call(c, index, size, r) ==
    /\ script = "diag2"
    /\ FramesFrame
    /\ req' = FrameRequest("read_object", c, index, 0, size, 0)
    /\ frame' = [frame EXCEPT ![c] = build_read_packet(index, 0, size)]
    /\ resp' = r
    /\ ret' = read_object(r, size)
    /\ msg' = read_object_msg(r, size)
    /\ UNCHANGED <<tid, result>>

\* diag2.py write_object(sock, index, sub_index, value, size)
d2_write_object_call(c, index, value, size, r) ==
    /\ script = "diag2"
    /\ FramesFrame
    /\ req' = FrameRequest("write_object", c, index, 0, size, value)
    /\ frame' = [frame EXCEPT ![c] = build_write_packet(index, 0, value, size)]
    /\ resp' = r
    /\ result' = BoolText(d2_write_object(r))
    /\ msg' = d2_write_object_msg(r)
    /\ UNCHANGED <<tid, ret>>

\* self.transaction_id = (self.transaction_id + 1) % 65536
get_transaction_id(t) == (t + 1) % 65536

\* pyqt5_test.py ModbusTCPGateway.read_object (connected)
gw_read_object_call(c, index, size, r) ==
    /\ script = "pyqt5_test"
    /\ FramesFrame
    /\ req' = FrameRequest("read_object", c, index, 0, size, 0)
    /\ tid' = [tid EXCEPT ![c] = get_transaction_id(tid[c])]
    /\ frame' = [frame EXCEPT ![c] = gw_read_packet(tid'[c], index, 0, size)]
    /\ resp' = r
    /\ ret' = read_object(r, size)
    /\ msg' = read_object_msg(r, size)
    /\ UNCHANGED result

\* pyqt5_test.py ModbusTCPGateway.write_object (connected)
gw_write_object_call(c, index, value, size, r) ==
    /\ script = "pyqt5_test"
    /\ FramesFrame
    /\ req' = FrameRequest("write_object", c, index, 0, size, value)
    /\ tid' = [tid EXCEPT ![c] = get_transaction_id(tid[c])]
    /\ frame' = [frame EXCEPT ![c] =
                     gw_write_packet(tid'[c], index, 0, value, size)]
    /\ resp' = r
    /\ result' = BoolText(gw_write_object(TRUE, r))
    /\ msg' = IF gw_write_object(TRUE, r) THEN "written"
              ELSE "Error writing object"
    /\ UNCHANGED ret

\* yz-gantry-control_v9.py ModbusGatewayClient.read_object (connected): it
\* has no size argument
v9_read_object_call(c, index, r) ==
    /\ script = "v9"
    /\ FramesFrame
    /\ req' = FrameRequest("read_object", c, index, 0, 2, 0)
    /\ tid' = [tid EXCEPT ![c] = get_transaction_id(tid[c])]
    /\ frame' = [frame EXCEPT ![c] = v9_read_packet(tid'[c], index, 0)]
    /\ resp' = r
    /\ ret' = v9_read_object(TRUE, r)
    /\ msg' = v9_read_object_msg(TRUE, r)
    /\ UNCHANGED result

\* yz-gantry-control_v9.py ModbusGatewayClient.write_object (connected): the
\* transaction id is counted before the size is looked at; an unsupported
\* size returns False before any socket exists
v9_write_object_call(c, index, data, data_size, r) ==
    /\ script = "v9"
    /\ FramesFrame
    /\ req' = FrameRequest("write_object", c, index, 0, data_size, data)
    /\ tid' = [tid EXCEPT ![c] = get_transaction_id(tid[c])]
    /\ IF v9_size_supported(data_size)
       THEN /\ frame' = [frame EXCEPT ![c] =
                   v9_write_packet(tid'[c], index, 0, data, data_size)]
            /\ resp' = r
            /\ result' = BoolText(v9_write_object(TRUE, r))
            /\ msg' = v9_write_object_msg(TRUE, r)
       ELSE /\ frame' = [frame EXCEPT ![c] = << >>]
            /\ resp' = TransportError
            /\ result' = "False"
            /\ msg' = "Unsupported data size"
    /\ UNCHANGED ret

\* unit_test.py write_object(client, index, sub_index, value, size): the
\* request is not built (struct.error, caught), nothing reaches the socket
ut_write_object_call(c, index, value, size, r) ==
    /\ script = "unit_test"
    /\ FramesFrame
    /\ req' = FrameRequest("write_object", c, index, 0, size, value)
    /\ frame' = [frame EXCEPT ![c] =
                    IF ut_write_request_packs(index, 0, size)
                    THEN build_write_packet(index, 0, value, size)
                    ELSE << >>]
    /\ resp' = IF ut_write_request_packs(index, 0, size) THEN r
               ELSE TransportError
    /\ result' = BoolText(ut_write_object(index, 0, size, r))
    /\ msg' = IF ut_write_object(index, 0, size, r) THEN "written"
              ELSE "Error writing object"
    /\ UNCHANGED <<tid, ret>>

\* unit_test.py read_statusword(client)
ut_read_statusword_call(c, r) ==
    /\ script = "unit_test"
    /\ FramesFrame
    /\ req' = FrameRequest("read_statusword", c, \h6041, 0, 2, 0)
    /\ frame' = [frame EXCEPT ![c] =
                    IF ut_read_request_packs
                    THEN build_read_packet(\h6041, 0, 2)
                    ELSE << >>]
    /\ resp' = IF ut_read_request_packs THEN r ELSE TransportError
    /\ ret' = ut_read_statusword(r)
    /\ msg' = IF ut_read_statusword(r) = None THEN "Error reading statusword"
              ELSE "Statusword"
    /\ UNCHANGED <<tid, result>>

NextFrames ==
    \/ \E c \in Axes, index \in FrameReadIndexes, size \in FrameSizes :
           \E r \in FrameReadReplies(index, 0, size) :
               d2_read_object_call(c, index, size, r)
    \/ \E c \in Axes, value \in FrameValues, size \in FrameSizes :
           \E r \in FrameWriteReplies(build_write_packet(\h607A, 0, value, size)) :
               d2_write_object_call(c, \h607A, value, size, r)
    \/ \E c \in Axes, index \in FrameReadIndexes, size \in FrameSizes :
           \E r \in FrameReadReplies(index, 0, size) :
               gw_read_object_call(c, index, size, r)
    \/ \E c \in Axes, value \in FrameValues, size \in FrameSizes :
           \E r \in FrameWriteReplies(
                      gw_write_packet(get_transaction_id(tid[c]), \h607A, 0,
                                      value, size)) :
               gw_write_object_call(c, \h607A, value, size, r)
    \/ \E c \in Axes, index \in FrameReadIndexes :
           \E r \in FrameReadReplies(index, 0, ObjectSize(index)) :
               v9_read_object_call(c, index, r)
    \/ \E c \in Axes, data \in FrameValues, data_size \in FrameSizes :
           \E r \in FrameWriteReplies(
                      v9_write_packet(get_transaction_id(tid[c]), \h607A, 0,
                                      data, data_size)) :
               v9_write_object_call(c, \h607A, data, data_size, r)
    \/ \E c \in Axes, value \in FrameValues, size \in FrameSizes :
           \E r \in FrameWriteReplies(build_write_packet(\h607A, 0, value, size)) :
               ut_write_object_call(c, \h607A, value, size, r)
    \/ \E c \in Axes :
           \E r \in FrameReadReplies(\h6041, 0, 2) :
               ut_read_statusword_call(c, r)

SpecFrames == InitFrames /\ [][NextFrames]_vars

----------------------------------------------------------------------------
(* The peer of the behavioural specifications *)

\* statuswords the drive may report: the six named states, OperationEnabled
\* and ReadyToSwitchOn with remote / target-reached set, and patterns outside
\* the named states (0x0007 quick stop active, 0x062F bit 3 set)
StatusPool ==
    {\h0000, \h0040, \h0021, \h0621, \h0023, \h0027, \h0627, \h0008,
     \h0007, \h062F}

\* what a statusword request may get back
StatusReplies ==
    {Received(ReadReply(\h6041, 0, 2, s)) : s \in StatusPool}
    \cup {Received(ExceptionReply(4)), TransportError}

\* what a write request may get back
WriteReplies(index, sub, size) ==
    {Received(WriteAck(index, sub, size)), Received(ExceptionReply(2)),
     Received(<< >>), TransportError}

ReadEv(ax, index, sub) ==
    [op |-> "read", ax |-> ax, index |-> index, sub |-> sub, value |-> 0]

WriteEv(ax, index, sub, value) ==
    [op |-> "write", ax |-> ax, index |-> index, sub |-> sub, value |-> value]

IsControlwordWrite(e) == e.op = "write" /\ e.index = \h6040
IsStatuswordRead(e) == e.op = "read" /\ e.index = \h6041
HasStartBit(e) == BitAnd(e.value, \h0010) # 0

Last(s) == s[Len(s)]

\* the values of the controlword writes of l on axis ax, in order
RECURSIVE ControlwordsOf(_, _)
ControlwordsOf(l, ax) ==
    IF l = << >> THEN << >>
    ELSE (IF IsControlwordWrite(l[1]) /\ l[1].ax = ax
          THEN <<l[1].value>> ELSE << >>) \o ControlwordsOf(Tail(l), ax)

IsPrefix(s, t) == Len(s) <= Len(t) /\ s = SubSeq(t, 1, Len(s))

----------------------------------------------------------------------------
(* SpecBringUp: go_through_state_machine of unit_test2.py and unit_test.py,  *)
(* and initialize_motor of yz-gantry-control_v9.py, on one axis              *)

GsmScripts == {"unit_test2", "unit_test"}
BringUpScripts == GsmScripts \cup {"v9"}

\* go_through_state_machine of diag2.py (enhanced_unit_test_v6.py has the
\* same), which starts from the state it finds
StateAwareScripts == {"diag2"}

InitBringUp ==
    /\ script \in BringUpScripts \cup StateAwareScripts
    /\ pc = "start"
    /\ BehaviourIdle
    /\ ClassifyIdle
    /\ FrameIdle
    /\ CodecIdle

\* a plausible slip: the last two commands exchanged
GsmCommand_swapped(p) ==
    CASE p = "shutdown" -> \h0006
      [] p = "switch_on" -> \h000F
      [] p = "enable_operation" -> \h0007

\* the controlword of each command block of go_through_state_machine
GsmCommand(p) ==
    CASE p = "shutdown" -> \h0006
      [] p = "switch_on" -> \h0007
      [] p = "enable_operation" -> \h000F

GsmAfter(p) ==
    CASE p = "shutdown" -> "switch_on"
      [] p = "switch_on" -> "enable_operation"
      [] p = "enable_operation" -> "check"

\* read_statusword as the script has it, and what the call hands to the socket
gsm_read_statusword(r) ==
    IF script = "unit_test" THEN ut_read_statusword(r) ELSE read_statusword(r)

gsm_read_sent ==
    IF script = "unit_test" /\ ~ut_read_request_packs THEN << >>
    ELSE <<ReadEv("y", \h6041, 0)>>

gsm_write_sent(value) ==
    IF script = "unit_test" /\ ~ut_controlword_request_packs THEN << >>
    ELSE <<WriteEv("y", \h6040, 0, value)>>

\* status = read_statusword(sock); if status is None: return False
gsm_initial_read ==
    /\ script \in GsmScripts
    /\ pc = "start"
    /\ \E r \in StatusReplies :
        LET st == gsm_read_statusword(r) IN
        /\ status' = [status EXCEPT !["y"] = st]
        /\ seen' = Append(seen, st)
        /\ log' = log \o gsm_read_sent
        /\ IF st = None
           THEN pc' = "done" /\ result' = "False"
           ELSE pc' = "shutdown" /\ result' = result
    /\ UNCHANGED <<script, polls, calls, done2, faultAt>>
    /\ UNCHANGED classifyVars
    /\ UNCHANGED frameVars
    /\ UNCHANGED codecVars

\* write_controlword(sock, cw); time.sleep(...); status = read_statusword(sock)
\* (the write's result is not looked at)
gsm_command ==
    /\ script \in GsmScripts
    /\ pc \in {"shutdown", "switch_on", "enable_operation"}
    /\ \E w \in WriteReplies(\h6040, 0, 2), r \in StatusReplies :
        LET written == IF script = "unit_test" THEN ut_write_controlword(w)
                       ELSE write_controlword(w)
            st == gsm_read_statusword(r)
        IN
        /\ written \in BOOLEAN
        /\ status' = [status EXCEPT !["y"] = st]
        /\ seen' = Append(seen, st)
        /\ log' = log \o gsm_write_sent(GsmCommand(pc)) \o gsm_read_sent
    /\ pc' = GsmAfter(pc)
    /\ UNCHANGED <<script, result, polls, calls, done2, faultAt>>
    /\ UNCHANGED classifyVars
    /\ UNCHANGED frameVars
    /\ UNCHANGED codecVars

\* a plausible slip: the test reduced to the bits ReadyToSwitchOn also has
gsm_reached_mask21(s) == BitAnd(s, \h0021) = \h0021

\* (status & 0x0627) == 0x0627
gsm_reached(s) == BitAnd(s, \h0627) = \h0627

\* unit_test2.py: if status is not None and (status & 0x0627) == 0x0627
\* unit_test.py:  if status & 0x0627 == 0x0627   (None & int raises TypeError)
gsm_check ==
    /\ script \in GsmScripts
    /\ pc = "check"
    /\ result' = IF status["y"] = None
                 THEN (IF script = "unit_test" THEN "TypeError" ELSE "False")
                 ELSE IF gsm_reached(status["y"]) THEN "True" ELSE "False"
    /\ pc' = "done"
    /\ UNCHANGED <<script, status, log, seen, polls, calls, done2, faultAt>>
    /\ UNCHANGED classifyVars
    /\ UNCHANGED frameVars
    /\ UNCHANGED codecVars

\* initialize_motor: write_object(OPERATION_MODE_INDEX, 0, 1, 1), then the
\* first statusword read; either failing returns False
v9_init_mode_and_status ==
    /\ script = "v9"
    /\ pc = "start"
    /\ \E w \in WriteReplies(\h6060, 0, 1), r \in StatusReplies :
        IF ~v9_write_object(TRUE, w)
        THEN /\ log' = Append(log, WriteEv("y", \h6060, 0, 1))
             /\ pc' = "done" /\ result' = "False"
             /\ UNCHANGED <<status, seen>>
        ELSE LET st == v9_read_object(TRUE, r) IN
             /\ log' = log \o <<WriteEv("y", \h6060, 0, 1), ReadEv("y", \h6041, 0)>>
             /\ status' = [status EXCEPT !["y"] = st]
             /\ seen' = Append(seen, st)
             /\ IF st = None
                THEN pc' = "done" /\ result' = "False"
                ELSE pc' = "shutdown" /\ result' = result
    /\ UNCHANGED <<script, polls, calls, done2, faultAt>>
    /\ UNCHANGED classifyVars
    /\ UNCHANGED frameVars
    /\ UNCHANGED codecVars

\* initialize_motor: each of the three commands; a failed write returns False
v9_init_command ==
    /\ script = "v9"
    /\ pc \in {"shutdown", "switch_on", "enable_operation"}
    /\ log' = Append(log, WriteEv("y", \h6040, 0, GsmCommand(pc)))
    /\ \E w \in WriteReplies(\h6040, 0, 2) :
        IF v9_write_object(TRUE, w)
        THEN pc' = GsmAfter(pc) /\ result' = result
        ELSE pc' = "done" /\ result' = "False"
    /\ UNCHANGED <<script, status, seen, polls, calls, done2, faultAt>>
    /\ UNCHANGED classifyVars
    /\ UNCHANGED frameVars
    /\ UNCHANGED codecVars

\* (status & 0x0007) == 0x0007
v9_operation_enabled(s) == BitAnd(s, \h0007) = \h0007

\* initialize_motor: the final statusword read and its test
v9_init_check ==
    /\ script = "v9"
    /\ pc = "check"
    /\ \E r \in StatusReplies :
        LET st == v9_read_object(TRUE, r) IN
        /\ status' = [status EXCEPT !["y"] = st]
        /\ seen' = Append(seen, st)
        /\ log' = Append(log, ReadEv("y", \h6041, 0))
        /\ result' = IF st # None /\ v9_operation_enabled(st)
                     THEN "True" ELSE "False"
    /\ pc' = "done"
    /\ UNCHANGED <<script, polls, calls, done2, faultAt>>
    /\ UNCHANGED classifyVars
    /\ UNCHANGED frameVars
    /\ UNCHANGED codecVars

\* diag2.py go_through_state_machine: the if / elif chain on the first
\* statusword
d2_current_state(s) ==
    IF BitAnd(s, \h004F) = \h0000 THEN STATE_NOT_READY
    ELSE IF BitAnd(s, \h004F) = \h0040 THEN STATE_SWITCH_ON_DISABLED
    ELSE IF BitAnd(s, \h006F) = \h0021 THEN STATE_READY_TO_SWITCH_ON
    ELSE IF BitAnd(s, \h006F) = \h0023 THEN STATE_SWITCHED_ON
    ELSE IF BitAnd(s, \h006F) = \h0027 THEN STATE_OPERATION_ENABLED
    ELSE IF BitAnd(s, \h004F) = \h0008 THEN STATE_FAULT
    ELSE STATE_UNKNOWN

\* where the function goes on from the state it found
d2_block_of(state) ==
    CASE state = STATE_FAULT -> "fault_reset"
      [] state = STATE_NOT_READY -> "wait"
      [] state = STATE_SWITCH_ON_DISABLED -> "shutdown"
      [] state = STATE_READY_TO_SWITCH_ON -> "switch_on"
      [] state = STATE_SWITCHED_ON -> "enable_operation"
      [] OTHER -> "done"

\* for _ in range(5)
WaitPolls == 5

\* (status & 0x004F) == 0x0040
d2_switch_on_disabled(s) == BitAnd(s, \h004F) = \h0040

\* the test after each command: (status & 0x006F) == 0x0021 / 0x0023 / 0x0027
d2_command_reached(p, s) ==
    CASE p = "shutdown" -> BitAnd(s, \h006F) = \h0021
      [] p = "switch_on" -> BitAnd(s, \h006F) = \h0023
      [] p = "enable_operation" -> BitAnd(s, \h006F) = \h0027

\* what a step of the diag2.py bring-up leaves alone
d2_frame ==
    /\ script \in StateAwareScripts
    /\ UNCHANGED <<script, seen, calls, done2, faultAt>>
    /\ UNCHANGED classifyVars
    /\ UNCHANGED frameVars
    /\ UNCHANGED codecVars

\* status = read_statusword(sock); None returns False; the state found
\* selects the block to go on with (OperationEnabled returns True, a
\* statusword of no named state returns False)
d2_initial_read ==
    /\ d2_frame
    /\ pc = "start"
    /\ \E r \in StatusReplies :
        LET st == read_statusword(r) IN
        /\ status' = [status EXCEPT !["y"] = st]
        /\ log' = Append(log, ReadEv("y", \h6041, 0))
        /\ IF st = None
           THEN pc' = "done" /\ result' = "False"
           ELSE /\ pc' = d2_block_of(d2_current_state(st))
                /\ result' =
                     IF d2_current_state(st) = STATE_OPERATION_ENABLED THEN "True"
                     ELSE IF d2_current_state(st) = STATE_UNKNOWN THEN "False"
                     ELSE result
    /\ UNCHANGED polls

\* write_controlword(sock, 0x0080); status = read_statusword(sock);
\* if (status & 0x004F) == 0x0040: go on, else return False.  A failed read
\* leaves None in status, and None & 0x004F raises TypeError, which nothing
\* catches.
d2_fault_reset ==
    /\ d2_frame
    /\ pc = "fault_reset"
    /\ \E w \in WriteReplies(\h6040, 0, 2), r \in StatusReplies :
        LET st == read_statusword(r) IN
        /\ write_controlword(w) \in BOOLEAN
        /\ status' = [status EXCEPT !["y"] = st]
        /\ log' = log \o <<WriteEv("y", \h6040, 0, \h0080), ReadEv("y", \h6041, 0)>>
        /\ IF st = None THEN pc' = "done" /\ result' = "TypeError"
           ELSE IF d2_switch_on_disabled(st) THEN pc' = "shutdown" /\ result' = result
           ELSE pc' = "done" /\ result' = "False"
    /\ UNCHANGED polls

\* one pass of the loop that waits for SwitchOnDisabled; after WaitPolls
\* passes without it the function returns False
d2_wait ==
    /\ d2_frame
    /\ pc = "wait"
    /\ polls < WaitPolls
    /\ polls' = polls + 1
    /\ \E r \in StatusReplies :
        LET st == read_statusword(r) IN
        /\ status' = [status EXCEPT !["y"] = st]
        /\ log' = Append(log, ReadEv("y", \h6041, 0))
        /\ IF st = None THEN pc' = "done" /\ result' = "TypeError"
           ELSE IF d2_switch_on_disabled(st) THEN pc' = "shutdown" /\ result' = result
           ELSE IF polls' = WaitPolls THEN pc' = "done" /\ result' = "False"
           ELSE pc' = "wait" /\ result' = result

\* write_controlword(sock, cw); status = read_statusword(sock); the state
\* aimed at, or return False (None: TypeError); after Enable Operation the
\* function returns True
d2_command ==
    /\ d2_frame
    /\ pc \in {"shutdown", "switch_on", "enable_operation"}
    /\ \E w \in WriteReplies(\h6040, 0, 2), r \in StatusReplies :
        LET st == read_statusword(r) IN
        /\ write_controlword(w) \in BOOLEAN
        /\ status' = [status EXCEPT !["y"] = st]
        /\ log' = log \o <<WriteEv("y", \h6040, 0, GsmCommand(pc)),
                            ReadEv("y", \h6041, 0)>>
        /\ IF st = None THEN pc' = "done" /\ result' = "TypeError"
           ELSE IF ~d2_command_reached(pc, st) THEN pc' = "done" /\ result' = "False"
           ELSE IF pc = "enable_operation" THEN pc' = "done" /\ result' = "True"
           ELSE pc' = GsmAfter(pc) /\ result' = result
    /\ UNCHANGED polls

NextBringUp ==
    \/ d2_initial_read
    \/ d2_fault_reset
    \/ d2_wait
    \/ d2_command
    \/ gsm_initial_read
    \/ gsm_command
    \/ gsm_check
    \/ v9_init_mode_and_status
    \/ v9_init_command
    \/ v9_init_check

SpecBringUp == InitBringUp /\ [][NextBringUp]_vars

----------------------------------------------------------------------------
(* Properties of the classifier and of the readers *)

\* C2: for every 16-bit statusword the classifier names one of the seven
\* states, and that state is the one the priority-ordered rule names (Fault
\* first, then OperationEnabled, SwitchedOn, ReadyToSwitchOn, SwitchOnDisabled,
\* NotReadyToSwitchOn, else Unknown), although the code tests the masks in
\* another order; 0x0008 is Fault, 0x0040 SwitchOnDisabled, 0x0000
\* NotReadyToSwitchOn, 0x0027 OperationEnabled.
C2_ClassifierIsPriorityRule ==
    pc = "classified" =>
        /\ cls \in STATE_NOT_READY .. STATE_UNKNOWN
        /\ cls = PriorityRule(sw)
        /\ (sw = \h0008 => cls = STATE_FAULT)
        /\ (sw = \h0040 => cls = STATE_SWITCH_ON_DISABLED)
        /\ (sw = \h0000 => cls = STATE_NOT_READY)
        /\ (sw = \h0027 => cls = STATE_OPERATION_ENABLED)

\* a fault statusword with further flags set (warning, remote, bit 5) has
\* been classified, by the branch the code tests last
C2_Witness ==
    /\ pc = "classified"
    /\ sw = \h02A8
    /\ cls = STATE_FAULT

\* C1: a read whose response has fewer bytes than the frame requires (19 +
\* size; an empty response included) returns no payload value: it returns
\* None with the short-response diagnostic.
C1_ShortResponseNeverPayload ==
    (/\ script = "codec"
     /\ pc = "returned"
     /\ req.fn \notin WriteFunctions
     /\ resp.kind = "bytes"
     /\ Len(resp.bytes) < 19 + req.size)
    => /\ ret = None
       /\ msg \in {"Response too short", "Invalid response length",
                   "Received a standard Modbus response"}

\* a 20-byte response (one byte short of a statusword) was refused
C1_Witness ==
    /\ script = "codec"
    /\ pc = "returned"
    /\ req.fn = "read_object"
    /\ req.size = 2
    /\ resp.kind = "bytes"
    /\ Len(resp.bytes) = 20
    /\ ret = None
    /\ msg = "Response too short"

----------------------------------------------------------------------------
(* Properties of the bring-up *)

\* between any two controlword writes of l there is a statusword read
ReadBetweenWrites(l) ==
    \A i, j \in 1 .. Len(l) :
        (i < j /\ IsControlwordWrite(l[i]) /\ IsControlwordWrite(l[j]))
        => \E k \in (i + 1) .. (j - 1) : IsStatuswordRead(l[k])

\* the states a drive started in SwitchOnDisabled reports, read by read, when
\* it advances one state per command
AdvancingStates ==
    <<STATE_SWITCH_ON_DISABLED, STATE_READY_TO_SWITCH_ON, STATE_SWITCHED_ON,
      STATE_OPERATION_ENABLED>>

\* every statusword read so far succeeded and showed the advancing drive
PeerAdvances ==
    /\ Len(seen) >= 1
    /\ \A i \in 1 .. Len(seen) :
        /\ i <= Len(AdvancingStates)
        /\ seen[i] # None
        /\ decode_statusword(seen[i]) = AdvancingStates[i]

\* C3: started with the drive in SwitchOnDisabled and a peer that advances
\* one state per command, go_through_state_machine writes exactly the
\* controlwords 0x0006, 0x0007, 0x000F, in that order and no other, and reads
\* the statusword between any two consecutive controlword writes.
C3_BringUpCommandSequence ==
    (script \in GsmScripts /\ PeerAdvances) =>
        /\ IsPrefix(ControlwordsOf(log, "y"), <<\h0006, \h0007, \h000F>>)
        /\ ReadBetweenWrites(log)
        /\ (pc = "done" => ControlwordsOf(log, "y") = <<\h0006, \h0007, \h000F>>)

\* the run of unit_test2.py against the advancing drive has ended
C3_Witness ==
    /\ script = "unit_test2"
    /\ pc = "done"
    /\ seen = <<\h0040, \h0021, \h0023, \h0627>>
    /\ ControlwordsOf(log, "y") = <<\h0006, \h0007, \h000F>>
    /\ Len(log) = 7

\* C4: bring-up returns success only if the last statusword it read satisfies
\* (s & 0x006F) == 0x0027, and against a peer that starts at 0x0040 and
\* answers the reads after the three commands with 0x0021, 0x0023, 0x0027 it
\* returns success.  (The scripts test other masks: this is violated.)
C4_SuccessIffOperationEnabled ==
    (script \in GsmScripts /\ pc = "done") =>
        /\ (result = "True" => BitAnd(Last(seen), \h006F) = \h0027)
        /\ (seen = <<\h0040, \h0021, \h0023, \h0027>> => result = "True")

\* C5: if the peer reports SwitchOnDisabled on the initial read and
\* ReadyToSwitchOn on every later statusword read, bring-up returns failure
\* and never success.  (unit_test.py reads nothing the peer reports: its
\* request is never built, and it returns failure whatever the peer does.)
C5_StuckAtReadyToSwitchOnFails ==
    /\ (/\ script \in BringUpScripts
        /\ Len(seen) >= 1
        /\ \A i \in 1 .. Len(seen) :
               /\ seen[i] # None
               /\ decode_statusword(seen[i]) =
                      (IF i = 1 THEN STATE_SWITCH_ON_DISABLED
                       ELSE STATE_READY_TO_SWITCH_ON))
       => /\ result # "True"
          /\ (pc = "done" => result = "False")
    /\ (script = "unit_test" /\ pc = "done") => result = "False"

\* unit_test2.py ran all three commands against the stuck peer and returned
C5_Witness ==
    /\ script = "unit_test2"
    /\ pc = "done"
    /\ seen = <<\h0040, \h0021, \h0621, \h0021>>
    /\ ControlwordsOf(log, "y") = <<\h0006, \h0007, \h000F>>
    /\ result = "False"

----------------------------------------------------------------------------
(* SpecPanel: the handlers of MotorControlGUI (archive/pyqt5_test.py).  Qt   *)
(* runs each handler to its end before the next, so a handler is one step.  *)

\* handler invocations in one run
MaxCalls == 3

\* positions the operator may have put in position_input
PanelPositions == {0, 1000}

InitPanel ==
    /\ script = "pyqt5"
    /\ pc = "disconnected"
    /\ BehaviourIdle
    /\ ClassifyIdle
    /\ FrameIdle
    /\ req = NoReq /\ resp = TransportError /\ ret = None
    /\ msg = "Unknown"

\* what stays as it is in every handler of the panel
PanelFrame ==
    /\ calls < MaxCalls
    /\ calls' = calls + 1
    /\ UNCHANGED <<script, result, seen, polls, done2, faultAt>>
    /\ UNCHANGED classifyVars
    /\ UNCHANGED frameVars
    /\ UNCHANGED <<req, resp, ret>>

\* toggle_connection: connect (which may fail) or disconnect
toggle_connection ==
    /\ script = "pyqt5"
    /\ PanelFrame
    /\ IF pc = "disconnected"
       THEN \E ok \in BOOLEAN :
                pc' = IF ok THEN "connected" ELSE "disconnected"
       ELSE pc' = "disconnected"
    /\ UNCHANGED <<status, log, msg>>

\* the controlword each button writes: shutdown_btn, switch_on_btn,
\* enable_operation_btn and stop_btn are all
\* lambda: self.gateway.write_controlword(value)
ButtonControlword ==
    [shutdown_btn |-> \h0006, switch_on_btn |-> \h0007,
     enable_operation_btn |-> \h000F, stop_btn |-> \h000F]

controlword_btn ==
    /\ script = "pyqt5"
    /\ pc = "connected"
    /\ PanelFrame
    /\ \E btn \in DOMAIN ButtonControlword :
        log' = Append(log, WriteEv("y", \h6040, 0, ButtonControlword[btn]))
    /\ UNCHANGED <<pc, status, msg>>

\* update_status: read_statusword, and update_state_display on a value
update_status ==
    /\ script = "pyqt5"
    /\ pc = "connected"
    /\ PanelFrame
    /\ \E r \in StatusReplies :
        LET value == read_object(r, 2) IN
        /\ log' = Append(log, ReadEv("y", \h6041, 0))
        /\ status' = [status EXCEPT !["y"] = value]
        /\ msg' = IF value # None THEN update_state_display(value) ELSE msg
    /\ UNCHANGED pc

\* start_movement: mode, target, velocity, acceleration, controlword 0x001F;
\* no result of a write is looked at
start_movement ==
    /\ script = "pyqt5"
    /\ pc = "connected"
    /\ PanelFrame
    /\ \E position \in PanelPositions :
        log' = log \o <<WriteEv("y", \h6060, 0, 1),
                        WriteEv("y", \h607A, 0, position),
                        WriteEv("y", \h6081, 0, 1000),
                        WriteEv("y", \h6083, 0, 2000),
                        WriteEv("y", \h6040, 0, \h001F)>>
    /\ UNCHANGED <<pc, status, msg>>

\* start_homing: mode 6, method 33, the two speeds, acceleration,
\* controlword 0x001F
start_homing ==
    /\ script = "pyqt5"
    /\ pc = "connected"
    /\ PanelFrame
    /\ log' = log \o <<WriteEv("y", \h6060, 0, 6),
                       WriteEv("y", \h6098, 0, 33),
                       WriteEv("y", \h6099, 1, 1000),
                       WriteEv("y", \h6099, 2, 500),
                       WriteEv("y", \h609A, 0, 2000),
                       WriteEv("y", \h6040, 0, \h001F)>>
    /\ UNCHANGED <<pc, status, msg>>

NextPanel ==
    \/ toggle_connection
    \/ controlword_btn
    \/ update_status
    \/ start_movement
    \/ start_homing

SpecPanel == InitPanel /\ [][NextPanel]_vars

\* no two consecutive controlword values of cws both have bit4 (start) set
NoConsecutiveStart(cws) ==
    \A i \in 1 .. (Len(cws) - 1) :
        ~(BitAnd(cws[i], \h0010) # 0 /\ BitAnd(cws[i + 1], \h0010) # 0)

\* cws holds a value with bit4 set directly followed by that value with only
\* bit4 cleared
HasRisingEdge(cws) ==
    \E i \in 1 .. (Len(cws) - 1) :
        BitAnd(cws[i], \h0010) # 0 /\ cws[i + 1] = cws[i] - \h0010

\* the handler that wrote object `index` has run
HasWritten(l, index) ==
    \E i \in 1 .. Len(l) : l[i].op = "write" /\ l[i].index = index

\* C6: in homing, the controlword writes contain a value with bit4 (start) set
\* immediately followed by the same value with bit4 cleared, and over any run,
\* repeated homing included, no two consecutive controlword writes both have
\* bit4 set.  (start_homing writes 0x001F and never clears it: violated.)
C6_HomingStartIsRisingEdge ==
    (script = "pyqt5" /\ HasWritten(log, \h6098)) =>
        /\ HasRisingEdge(ControlwordsOf(log, "y"))
        /\ NoConsecutiveStart(ControlwordsOf(log, "y"))

----------------------------------------------------------------------------
(* SpecGantry: the key handlers of GantryControl and move_relative /         *)
(* is_ready of ModbusGatewayClient (archive/yz-gantry-control_v9.py), both  *)
(* controllers connected                                                    *)

\* key presses in one run
MaxJogs == 2

JOG_DISTANCE == 10
JOG_VELOCITY == 50
JOG_ACCELERATION == 200
JOG_DECELERATION == 200

\* statuswords the drive may report to the gantry program: OperationEnabled,
\* Fault, SwitchOnDisabled, and quick stop active (0x0007)
GantryStatusReplies ==
    {Received(ReadReply(\h6041, 0, 2, s)) : s \in {\h0027, \h0008, \h0040, \h0007}}
    \cup {TransportError}

\* the two versions of the gantry program
GantryScripts == {"v9_gantry", "yz_gantry"}

InitGantry ==
    /\ script \in GantryScripts
    /\ pc = "ready"
    /\ BehaviourIdle
    /\ ClassifyIdle
    /\ FrameIdle
    /\ CodecIdle

\* is_ready: (status & 0x0007) == 0x0007, False when the read failed
is_ready(st) == st # None /\ BitAnd(st, \h0007) = \h0007

\* the write_object calls of move_relative, in order
MoveRelativeWrites(ax, distance) ==
    <<WriteEv(ax, \h6081, 0, JOG_VELOCITY),
      WriteEv(ax, \h6083, 0, JOG_ACCELERATION),
      WriteEv(ax, \h6084, 0, JOG_DECELERATION),
      WriteEv(ax, \h607A, 0, distance),
      WriteEv(ax, \h6040, 0, BitOr(BitOr(\h000F, \h0040), \h0010)),
      WriteEv(ax, \h6040, 0, BitOr(\h000F, \h0040))>>

\* move_relative: the writes up to the first one whose write_object returns
\* False (k = 0: none does).  A write that failed on a reply was sent; one
\* that failed on a socket error may or may not have been.
move_relative(ax, distance) ==
    LET ws == MoveRelativeWrites(ax, distance) IN
    \E k \in 0 .. Len(ws) :
        IF k = 0
        THEN /\ v9_write_object(TRUE, Received(WriteAck(\h6040, 0, 2)))
             /\ log' = log \o <<ReadEv(ax, \h6041, 0)>> \o ws
             /\ result' = "True"
        ELSE \E w \in WriteReplies(ws[k].index, ws[k].sub, 4), sent \in BOOLEAN :
             /\ ~v9_write_object(TRUE, w)
             /\ (w.kind = "bytes" => sent)
             /\ log' = log \o <<ReadEv(ax, \h6041, 0)>>
                           \o SubSeq(ws, 1, IF sent THEN k ELSE k - 1)
             /\ result' = "False"

\* move_left / move_right / move_up / move_down:
\* if controller.connected and controller.is_ready(): move_relative(distance)
jog(ax, distance) ==
    /\ script = "v9_gantry"
    /\ calls < MaxJogs
    /\ calls' = calls + 1
    /\ \E r \in GantryStatusReplies :
        LET st == v9_read_object(TRUE, r) IN
        /\ status' = [status EXCEPT ![ax] = st]
        /\ IF is_ready(st)
           THEN move_relative(ax, distance)
           ELSE /\ log' = Append(log, ReadEv(ax, \h6041, 0))
                /\ result' = result
    /\ UNCHANGED <<script, pc, seen, polls, done2, faultAt>>
    /\ UNCHANGED classifyVars
    /\ UNCHANGED frameVars
    /\ UNCHANGED codecVars

move_left == jog("y", -JOG_DISTANCE)
move_right == jog("y", JOG_DISTANCE)
move_up == jog("z", JOG_DISTANCE)
move_down == jog("z", -JOG_DISTANCE)

\* archive/yz-gantry-control.py, the earlier version of the program

\* write_object of yz-gantry-control.py: True when byte 7 of the response is
\* 0x2B; a response of 7 bytes raises IndexError, which the except catches
yz_write_object(r) ==
    /\ r.kind # "error"
    /\ Len(r.bytes) >= 8
    /\ At(r.bytes, 7) = \h2B

CONTROLWORD_RELATIVE == \h0040
CONTROLWORD_START_POSITIONING == \h001F
CONTROLWORD_RESET_START == \h000F

\* the write_object calls of its move_relative, in order, with their sizes
YzMoveRelativeWrites(ax, distance) ==
    <<WriteEv(ax, \h6081, 0, JOG_VELOCITY),
      WriteEv(ax, \h6083, 0, JOG_ACCELERATION),
      WriteEv(ax, \h6084, 0, JOG_DECELERATION),
      WriteEv(ax, \h607A, 0, distance),
      WriteEv(ax, \h6040, 0, BitOr(CONTROLWORD_START_POSITIONING, CONTROLWORD_RELATIVE)),
      WriteEv(ax, \h6040, 0, BitOr(CONTROLWORD_RESET_START, CONTROLWORD_RELATIVE))>>

\* what the gateway may answer to write w: the echo, or one of two answers
\* write_object turns into False (an exception response, an empty response)
YzWriteReplies(w, bad) ==
    <<Received(WriteAck(w.index, w.sub, IF w.index = \h6040 THEN 2 ELSE 4)),
      Received(IF bad = 1 THEN ExceptionReply(2) ELSE << >>)>>

\* move_relative of yz-gantry-control.py: six write_object calls whose
\* results are dropped, then return True.  Every request is sent; ret keeps
\* what each call returned.
yz_move_relative(ax, distance) ==
    LET ws == YzMoveRelativeWrites(ax, distance) IN
    \E c \in [1 .. Len(ws) -> 1 .. 2], bad \in 1 .. 2 :
        /\ ret' = [i \in 1 .. Len(ws) |->
                      yz_write_object(YzWriteReplies(ws[i], bad)[c[i]])]
        /\ log' = log \o ws
        /\ result' = "True"

\* move_left / move_right / move_up / move_down of yz-gantry-control.py:
\* if controller.connected: controller.move_relative(distance)
yz_jog(ax, distance) ==
    /\ script = "yz_gantry"
    /\ calls < MaxJogs
    /\ calls' = calls + 1
    /\ yz_move_relative(ax, distance)
    /\ UNCHANGED <<script, pc, status, seen, polls, done2, faultAt>>
    /\ UNCHANGED <<req, resp, msg>>
    /\ UNCHANGED classifyVars
    /\ UNCHANGED frameVars

yz_move_left == yz_jog("y", -JOG_DISTANCE)
yz_move_right == yz_jog("y", JOG_DISTANCE)
yz_move_up == yz_jog("z", JOG_DISTANCE)
yz_move_down == yz_jog("z", -JOG_DISTANCE)

NextGantry ==
    \/ move_left
    \/ move_right
    \/ move_up
    \/ move_down
    \/ yz_move_left
    \/ yz_move_right
    \/ yz_move_up
    \/ yz_move_down

SpecGantry == InitGantry /\ [][NextGantry]_vars

\* C7: in a profile-position move, the controlword write that sets bit4
\* (start) is followed, as the next controlword write on that axis, by the
\* same value with only bit4 cleared, and across any sequence of moves no two
\* consecutive controlword writes both have bit4 set.  (move_relative returns
\* before the clearing write when the start write fails: violated.)
C7_MoveStartIsRisingEdge ==
    script = "v9_gantry" =>
        \A ax \in Axes :
            LET cws == ControlwordsOf(log, ax) IN
            /\ NoConsecutiveStart(cws)
            /\ \A i \in 1 .. Len(cws) :
                BitAnd(cws[i], \h0010) # 0 =>
                    (i < Len(cws) /\ cws[i + 1] = cws[i] - \h0010)

\* C8: a motion command writes target position, profile parameters or the
\* start bit only if the most recent statusword read classifies as
\* OperationEnabled, (s & 0x006F) == 0x0027; in Fault it performs none of
\* those writes.  (is_ready tests (s & 0x0007) == 0x0007: violated.)
C8_MotionOnlyWhenOperationEnabled ==
    (script = "v9_gantry" /\ log # << >> /\ Last(log).op = "write") =>
        LET s == status[Last(log).ax] IN
        s # None /\ BitAnd(s, \h006F) = \h0027

\* C24: a move writes profile velocity, acceleration, deceleration and target
\* position before the start controlword and writes the start controlword
\* only if all four writes succeeded; if any of them fails the move returns
\* failure and no controlword with bit4 set is written.  (move_relative of
\* yz-gantry-control.py drops the result of every write: violated.)
C24_StartOnlyAfterFourGoodWrites ==
    [][(script = "yz_gantry" /\ calls' = calls + 1 /\ \E i \in 1 .. 4 : ~ret'[i]) =>
           /\ result' = "False"
           /\ \A j \in (Len(log) + 1) .. Len(log') :
                  ~(IsControlwordWrite(log'[j]) /\ HasStartBit(log'[j]))]_vars

----------------------------------------------------------------------------
(* SpecSync: test_both_axes_in_sync of unit_test2.py *)

\* for _ in range(20)
PollLimit == 20

\* statuswords an axis may report while a move runs: OperationEnabled moving,
\* OperationEnabled with target reached (bit 10), Fault
SyncStatusReplies ==
    {Received(ReadReply(\h6041, 0, 2, s)) : s \in {\h0027, \h0427, \h0008}}
    \cup {TransportError}

InitSync ==
    /\ script = "unit_test2_sync"
    /\ pc = "start"
    /\ BehaviourIdle
    /\ ClassifyIdle
    /\ FrameIdle
    /\ CodecIdle

\* what no step of test_both_axes_in_sync changes
SyncFrame ==
    /\ UNCHANGED <<script, seen, calls>>
    /\ UNCHANGED classifyVars
    /\ UNCHANGED frameVars
    /\ UNCHANGED codecVars

\* a plausible slip: a failed read counted as target reached
target_reached_or_failed(st) == st = None \/ BitAnd(st, \h0400) # 0

\* status is not None and (status & 0x0400)
target_reached(st) == st # None /\ BitAnd(st, \h0400) # 0

\* a plausible slip: the call made on the y socket only
OnBoth_y_only(index, sub, value) == <<WriteEv("y", index, sub, value)>>

\* the same call made on the y socket, then on the z socket
OnBoth(index, sub, value) ==
    <<WriteEv("y", index, sub, value), WriteEv("z", index, sub, value)>>

\* mode, target, velocity, acceleration on both axes, then controlword
\* 0x001F on both; no result of a write is looked at
sync_setup ==
    /\ script = "unit_test2_sync"
    /\ pc = "start"
    /\ log' = log \o OnBoth(\h6060, 0, 1) \o OnBoth(\h607A, 0, 1000)
                  \o OnBoth(\h6081, 0, 1000) \o OnBoth(\h6083, 0, 2000)
                  \o OnBoth(\h6040, 0, \h001F)
    /\ pc' = "poll"
    /\ UNCHANGED <<result, status, polls, done2, faultAt>>
    /\ SyncFrame

\* one pass of a polling loop: read y, read z, break when both report target
\* reached; the loop also ends after PollLimit passes.  polls counts the
\* passes that did not break, done2 tells that the loop printed its
\* completion message, faultAt remembers the length of the log when an axis
\* first reported Fault.
PollPass(here, after, message) ==
    /\ script = "unit_test2_sync"
    /\ pc = here
    /\ \E ry \in SyncStatusReplies, rz \in SyncStatusReplies :
        LET y_status == read_statusword(ry)
            z_status == read_statusword(rz)
            both == target_reached(y_status) /\ target_reached(z_status)
            fault == \E st \in {y_status, z_status} :
                        st # None /\ decode_statusword(st) = STATE_FAULT
        IN
        /\ status' = [y |-> y_status, z |-> z_status]
        /\ log' = log \o <<ReadEv("y", \h6041, 0), ReadEv("z", \h6041, 0)>>
        /\ faultAt' = IF faultAt = 0 /\ fault THEN Len(log') ELSE faultAt
        /\ IF both
           THEN /\ result' = message
                /\ done2' = TRUE
                /\ polls' = polls
                /\ pc' = after
           ELSE /\ result' = result
                /\ done2' = done2
                /\ polls' = polls + 1
                /\ pc' = IF polls + 1 = PollLimit THEN after ELSE pc
    /\ SyncFrame

sync_poll == PollPass("poll", "reset", "Both movements completed")

\* controlword 0x000F on both, target 0 on both, controlword 0x001F on both
sync_return ==
    /\ script = "unit_test2_sync"
    /\ pc = "reset"
    /\ log' = log \o OnBoth(\h6040, 0, \h000F) \o OnBoth(\h607A, 0, 0)
                  \o OnBoth(\h6040, 0, \h001F)
    /\ pc' = "return_poll"
    /\ done2' = FALSE
    /\ polls' = 0
    /\ UNCHANGED <<result, status, faultAt>>
    /\ SyncFrame

sync_return_poll ==
    PollPass("return_poll", "final_reset", "Both return movements completed")

\* controlword 0x000F on both
sync_final_reset ==
    /\ script = "unit_test2_sync"
    /\ pc = "final_reset"
    /\ log' = log \o OnBoth(\h6040, 0, \h000F)
    /\ pc' = "done"
    /\ UNCHANGED <<result, status, polls, done2, faultAt>>
    /\ SyncFrame

NextSync ==
    \/ sync_setup
    \/ sync_poll
    \/ sync_return
    \/ sync_return_poll
    \/ sync_final_reset

SpecSync == InitSync /\ [][NextSync]_vars


----------------------------------------------------------------------------
(* SpecMove: test_simple_movement of unit_test2.py, called by main() on the  *)
(* y socket after go_through_state_machine returned True                    *)

\* for _ in range(10)
MovePollLimit == 10

\* statuswords the axis may report while the move runs: OperationEnabled
\* moving, OperationEnabled with target reached (bit 10), Fault, Fault with
\* bit 10, SwitchOnDisabled
MoveStatusReplies ==
    {Received(ReadReply(\h6041, 0, 2, s)) :
        s \in {\h0027, \h0427, \h0008, \h0408, \h0040}}
    \cup {TransportError}

InitMove ==
    /\ script = "unit_test2_move"
    /\ pc = "start"
    /\ BehaviourIdle
    /\ ClassifyIdle
    /\ FrameIdle
    /\ CodecIdle

\* what no step of test_simple_movement changes
MoveFrame ==
    /\ UNCHANGED <<script, seen, calls>>
    /\ UNCHANGED classifyVars
    /\ UNCHANGED frameVars
    /\ UNCHANGED codecVars

\* mode 1 to 0x6060, target 100000, velocity 1000, acceleration 2000, then
\* controlword 0x001F; no result of a write is looked at and 0x6061 is not
\* read
move_setup ==
    /\ script = "unit_test2_move"
    /\ pc = "start"
    /\ log' = log \o <<WriteEv("y", \h6060, 0, 1),
                        WriteEv("y", \h607A, 0, 100000),
                        WriteEv("y", \h6081, 0, 1000),
                        WriteEv("y", \h6083, 0, 2000),
                        WriteEv("y", \h6040, 0, \h001F)>>
    /\ pc' = "poll"
    /\ UNCHANGED <<result, status, polls, done2, faultAt>>
    /\ MoveFrame

\* one pass of a polling loop: read the statusword, break when it has bit 10;
\* the loop also ends after MovePollLimit passes.  polls counts the passes
\* that did not break, done2 tells that the loop printed its completion
\* message, faultAt remembers the length of the log when a poll first read
\* a statusword that is not OperationEnabled.
MovePollPass(here, after, message) ==
    /\ script = "unit_test2_move"
    /\ pc = here
    /\ \E r \in MoveStatusReplies :
        LET st == read_statusword(r)
            left == st # None /\ decode_statusword(st) # STATE_OPERATION_ENABLED
        IN
        /\ status' = [status EXCEPT !["y"] = st]
        /\ log' = Append(log, ReadEv("y", \h6041, 0))
        /\ faultAt' = IF faultAt = 0 /\ left THEN Len(log') ELSE faultAt
        /\ IF target_reached(st)
           THEN /\ result' = message
                /\ done2' = TRUE
                /\ polls' = polls
                /\ pc' = after
           ELSE /\ result' = result
                /\ done2' = done2
                /\ polls' = polls + 1
                /\ pc' = IF polls + 1 = MovePollLimit THEN after ELSE pc
    /\ MoveFrame

move_poll == MovePollPass("poll", "reset", "Movement completed")

\* controlword 0x000F, target 0, controlword 0x001F
move_return ==
    /\ script = "unit_test2_move"
    /\ pc = "reset"
    /\ log' = log \o <<WriteEv("y", \h6040, 0, \h000F),
                        WriteEv("y", \h607A, 0, 0),
                        WriteEv("y", \h6040, 0, \h001F)>>
    /\ pc' = "return_poll"
    /\ done2' = FALSE
    /\ polls' = 0
    /\ UNCHANGED <<result, status, faultAt>>
    /\ MoveFrame

move_return_poll ==
    MovePollPass("return_poll", "final_reset", "Return movement completed")

\* controlword 0x000F; the function ends without a return statement
move_final_reset ==
    /\ script = "unit_test2_move"
    /\ pc = "final_reset"
    /\ log' = Append(log, WriteEv("y", \h6040, 0, \h000F))
    /\ pc' = "done"
    /\ UNCHANGED <<result, status, polls, done2, faultAt>>
    /\ MoveFrame

NextMove ==
    \/ move_setup
    \/ move_poll
    \/ move_return
    \/ move_return_poll
    \/ move_final_reset

SpecMove == InitMove /\ [][NextMove]_vars

----------------------------------------------------------------------------
(* Properties of the single-axis move *)

\* e is a read of ModeOfOperationDisplay
IsModeDisplayRead(e) == e.op = "read" /\ e.index = \h6061

\* C25: a move writes the target position or the start bit only after a read
\* of ModeOfOperationDisplay (0x6061) returned 1; when the mode is not 1 it
\* writes ModeOfOperation = 1 and re-reads, and returns failure without
\* writing target or start when the mode still is not 1 or a mode read or
\* write fails.  (test_simple_movement writes 1 to 0x6060 and goes on: no
\* read of 0x6061 anywhere: violated.)
C25_MoveOnlyInConfirmedMode ==
    script = "unit_test2_move" =>
        \A i \in 1 .. Len(log) :
            (log[i].op = "write" /\ (log[i].index = \h607A \/
                (IsControlwordWrite(log[i]) /\ HasStartBit(log[i])))) =>
                \E j \in 1 .. (i - 1) : IsModeDisplayRead(log[j])

\* C26: the polling loop of a move ends, with failure and without a further
\* poll, at the first polled statusword that classifies as Fault (or is
\* otherwise outside OperationEnabled), and it ends with success only on a
\* statusword that has bit 10 set and is not in Fault.  (The loop of
\* test_simple_movement tests bit 10 only: violated.)
C26_PollEndsAtFault ==
    script = "unit_test2_move" =>
        /\ faultAt > 0 =>
               \A i \in (faultAt + 1) .. Len(log) : ~IsStatuswordRead(log[i])
        /\ (pc = "reset" /\ done2) =>
               /\ status["y"] # None
               /\ BitAnd(status["y"], \h0400) # 0
               /\ decode_statusword(status["y"]) # STATE_FAULT

\* the first polling loop ran out of passes without reading bit 10
MoveTimedOut == pc \notin {"start", "poll"} /\ result = "none"

\* C27: a move terminates: its loop polls at most a fixed number of times, a
\* failed read counting against that number like any other, and when target
\* reached was never observed the move returns failure.  (The loop is
\* bounded by range(10), but after it test_simple_movement goes on to the
\* return move and ends without a result: violated.)
C27_MoveTerminatesWithFailure ==
    script = "unit_test2_move" =>
        /\ polls <= MovePollLimit
        /\ (pc \in {"poll", "return_poll"} => polls < MovePollLimit)
        /\ MoveTimedOut => (pc = "done" /\ result = "False")

----------------------------------------------------------------------------
(* Properties of the two-axis move *)

\* the statusword last read on ax has bit 10 (target reached)
ReportedTargetReached(ax) ==
    status[ax] # None /\ BitAnd(status[ax], \h0400) # 0

\* C9: the two-axis move reports completion only when every axis has reported
\* target reached (statusword bit 10): while one axis has reached its target
\* and the other has not, polling goes on (up to its pass limit) and no
\* completion is reported, and an axis whose statusword read failed is not
\* counted as having reached its target.
C9_CompletionNeedsEveryAxis ==
    script = "unit_test2_sync" =>
        /\ (done2 => \A ax \in Axes : ReportedTargetReached(ax))
        /\ ((pc \in {"reset", "final_reset"} /\ ~done2) => polls = PollLimit)
        /\ ((pc \in {"poll", "return_poll"} /\ polls > 0) =>
                (~done2 /\ \E ax \in Axes : ~ReportedTargetReached(ax)))

\* completion was reported on the third pass, after two passes without it
C9_Witness ==
    /\ script = "unit_test2_sync"
    /\ pc = "reset"
    /\ done2
    /\ polls = 2
    /\ result = "Both movements completed"
    /\ status = [y |-> \h0427, z |-> \h0427]

\* C10: if an axis reports Fault during the two-axis move, polling ends, every
\* axis receives a stop before the operation returns, and no further motion
\* is started.  (The polling loops do not look at the fault bit: violated.)
C10_FaultAbortsEveryAxis ==
    (script = "unit_test2_sync" /\ faultAt > 0) =>
        /\ \A i \in (faultAt + 1) .. Len(log) :
                /\ ~IsStatuswordRead(log[i])
                /\ ~(IsControlwordWrite(log[i]) /\ HasStartBit(log[i]))
        /\ (pc = "done" =>
                \A ax \in Axes : \E i \in (faultAt + 1) .. Len(log) :
                    /\ IsControlwordWrite(log[i])
                    /\ log[i].ax = ax
                    /\ ~HasStartBit(log[i]))


\* the first polling loop of the two-axis move ended on its pass limit
SyncTimedOut == pc = "reset" /\ ~done2

\* e commands motion: a target position, or a controlword with the start bit
CommandsMotion(e) ==
    e.op = "write" /\ (e.index = \h607A \/ (IsControlwordWrite(e) /\ HasStartBit(e)))

\* C28: when the poll ceiling is exceeded, or the drive leaves
\* OperationEnabled during the move, the operation reports failure and
\* commands no further motion: no controlword with bit 4, no new target
\* position, no retry.  (test_both_axes_in_sync goes on to the return move
\* whatever ended the loop: violated.)
C28_NoMotionAfterFailedMove ==
    [][(script = "unit_test2_sync" /\ (SyncTimedOut \/ faultAt > 0)) =>
           /\ \A j \in (Len(log) + 1) .. Len(log') : ~CommandsMotion(log'[j])
           /\ (pc' = "done" => result' = "False")]_vars

\* before event p of the log, axis ax got the write of object index
WrittenBefore(p, ax, index) ==
    \E i \in 1 .. (p - 1) :
        log[i].op = "write" /\ log[i].ax = ax /\ log[i].index = index

\* before event p of the log, axis ax got a controlword with bit 4 set and,
\* after it, one with bit 4 cleared
StartEdgeBefore(p, ax) ==
    \E i \in 1 .. (p - 1) :
        /\ IsControlwordWrite(log[i]) /\ log[i].ax = ax /\ HasStartBit(log[i])
        /\ \E j \in (i + 1) .. (p - 1) :
               IsControlwordWrite(log[j]) /\ log[j].ax = ax /\ ~HasStartBit(log[j])

\* C32: in a multi-axis move, the parameter writes and the start controlword
\* writes (bit 4 set, then cleared) of every axis all happen before the
\* first statusword poll of any axis.  (test_both_axes_in_sync sets bit 4 on
\* both axes before it polls, but clears it only after the polling loop:
\* violated.)
C32_AllAxesStartedBeforePolling ==
    script = "unit_test2_sync" =>
        \A p \in 1 .. Len(log) :
            IsStatuswordRead(log[p]) =>
                \A ax \in Axes :
                    /\ WrittenBefore(p, ax, \h607A)
                    /\ WrittenBefore(p, ax, \h6081)
                    /\ WrittenBefore(p, ax, \h6083)
                    /\ StartEdgeBefore(p, ax)

----------------------------------------------------------------------------
(* SpecMain: archive/main.py, the start-up chain init_set and homing.  The
   functions take the socket s and the telegrams from the module namespace.
   Run as a script, main.py binds none of these names (they are locals of
   initialize_socket_and_communications and initialize_control_words), and
   set_mode has the bare name c on its first line; a caller that imports the
   module can bind them. *)

\* the telegrams of initialize_control_words
DInputs_array == <<0, 0, 0, 0, 0, 13, 0, 43, 13, 0, 0, 0, 96, 253, 0, 0, 0, 0, 4>>
status_array == <<0, 0, 0, 0, 0, 13, 0, 43, 13, 0, 0, 0, 96, 65, 0, 0, 0, 0, 2>>
shutdown_array ==
    <<0, 0, 0, 0, 0, 15, 0, 43, 13, 1, 0, 0, 96, 64, 0, 0, 0, 0, 2, 6, 0>>
switchOn_array ==
    <<0, 0, 0, 0, 0, 15, 0, 43, 13, 1, 0, 0, 96, 64, 0, 0, 0, 0, 2, 7, 0>>
enableOperation_array ==
    <<0, 0, 0, 0, 0, 15, 0, 43, 13, 1, 0, 0, 96, 64, 0, 0, 0, 0, 2, 15, 0>>
reset_array ==
    <<0, 0, 0, 0, 0, 15, 0, 43, 13, 1, 0, 0, 96, 64, 0, 0, 0, 0, 2, 0, 1>>
\* Command: stop motion (controlword 0x010F)
stop_array ==
    <<0, 0, 0, 0, 0, 15, 0, 43, 13, 1, 0, 0, 96, 64, 0, 0, 0, 0, 2, 15, 1>>

\* set_mode: the request for 6061h and the answer it waits for
mode_request == <<0, 0, 0, 0, 0, 13, 0, 43, 13, 0, 0, 0, 96, 97, 0, 0, 0, 0, 1>>
mode_answer(mode) ==
    <<0, 0, 0, 0, 0, 14, 0, 43, 13, 0, 0, 0, 96, 97, 0, 0, 0, 0, 1, mode>>

\* homing: feed constant, shaft revolutions, the two homing speeds, the
\* homing acceleration, and the controlword 0x001F that starts homing
homing_telegrams ==
    << <<0, 0, 0, 0, 0, 17, 0, 43, 13, 1, 0, 0, 96, 146, 1, 0, 0, 0, 4, 24, 21, 0, 0>>,
       <<0, 0, 0, 0, 0, 17, 0, 43, 13, 1, 0, 0, 96, 146, 2, 0, 0, 0, 4, 1, 0, 0, 0>>,
       <<0, 0, 0, 0, 0, 17, 0, 43, 13, 1, 0, 0, 96, 153, 1, 0, 0, 0, 4, 112, 23, 0, 0>>,
       <<0, 0, 0, 0, 0, 17, 0, 43, 13, 1, 0, 0, 96, 153, 2, 0, 0, 0, 4, 112, 23, 0, 0>>,
       <<0, 0, 0, 0, 0, 17, 0, 43, 13, 1, 0, 0, 96, 154, 0, 0, 0, 0, 4, 160, 134, 1, 0>>,
       <<0, 0, 0, 0, 0, 15, 0, 43, 13, 1, 0, 0, 96, 64, 0, 0, 0, 0, 2, 31, 0>> >>

\* the statusword answer the loops compare against, with its two data bytes
status_answer(lo, hi) ==
    <<0, 0, 0, 0, 0, 15, 0, 43, 13, 0, 0, 0, 96, 65, 0, 0, 0, 0, 2, lo, hi>>

\* the digital-inputs answer of the pushed stop button
stop_answer ==
    <<0, 0, 0, 0, 0, 17, 0, 43, 13, 0, 0, 0, 96, 253, 0, 0, 0, 0, 4, 8, 0, 66, 0>>

\* the answers each wait loop leaves on, in the order of its comparisons
wait_answers(p) ==
    CASE p = "set_shdn" ->
            <<status_answer(33, 6), status_answer(33, 22), status_answer(33, 2)>>
      [] p = "set_swon" ->
            <<status_answer(35, 6), status_answer(35, 22), status_answer(35, 2)>>
      [] p = "set_op_en" ->
            <<status_answer(39, 6), status_answer(39, 22), status_answer(39, 2)>>
      [] p = "homing" ->
            <<status_answer(39, 22), status_answer(8, 6), status_answer(8, 34),
              status_answer(8, 2)>>

\* res = s.recv(24); return list(res)
sendCommand(r) == SubSeq(r.bytes, 1, IF Len(r.bytes) < 24 THEN Len(r.bytes) ELSE 24)

\* passes of a wait loop that are told apart (the loops themselves count
\* nothing and have no limit)
MaxWaits == 3

\* statuswords the drive may answer with: SwitchOnDisabled, ReadyToSwitchOn,
\* SwitchedOn, OperationEnabled, OperationEnabled with homing attained and
\* target reached, Fault as main.py expects it, and Fault with no other bit
MainStatusPool == {\h0640, \h0621, \h0623, \h0627, \h1627, \h0608, \h0008}

MainStatusReplies ==
    {Received(status_answer(sw0 % 256, sw0 \div 256)) : sw0 \in MainStatusPool}
    \cup {Received(ExceptionReply(4)), TransportError}

MainModeReplies ==
    {Received(mode_answer(m)) : m \in {0, 1, 6}}
    \cup {Received(ExceptionReply(4)), TransportError}

MainInputReplies ==
    {Received(stop_answer),
     Received(<<0, 0, 0, 0, 0, 17, 0, 43, 13, 0, 0, 0, 96, 253, 0, 0, 0, 0, 4, 8, 0, 65, 0>>),
     TransportError}

\* which function is called, and whether the module names are bound
MainCall(fn, names) == [fn |-> fn, names |-> names]

MainCalls ==
    {MainCall(fn, names) : fn \in {"init_set", "homing", "stop"},
                           names \in {"unbound", "bound"}}

\* the statusword an answer carries (None: it is no 21-byte answer)
StatuswordOf(bytes) ==
    IF Len(bytes) = 21 THEN LittleEndian(bytes, 19, 2) ELSE None

InitMain ==
    /\ script = "main"
    /\ pc = "start"
    /\ req \in MainCalls
    /\ resp = TransportError /\ ret = None /\ msg = ""
    /\ BehaviourIdle
    /\ ClassifyIdle
    /\ FrameIdle

\* what a step of main.py leaves alone
MainFrame ==
    /\ script = "main"
    /\ UNCHANGED <<script, req, resp, msg, log, seen, done2, faultAt, tid>>
    /\ UNCHANGED classifyVars

\* x is put on the wire: s.send(data)
Sends(x) == frame' = [frame EXCEPT !["y"] = x]

\* the socket raised inside sendCommand; nothing in main.py catches it
Raises == pc' = "done" /\ result' = "ConnectionError"

NextPass == IF polls < MaxWaits THEN polls + 1 ELSE polls

\* the first name a function looks up is not bound: NameError
call_unbound ==
    /\ MainFrame
    /\ pc = "start"
    /\ req.names = "unbound"
    /\ pc' = "done"
    /\ result' = "NameError"
    /\ UNCHANGED <<status, polls, calls, ret, frame>>

\* init_set: set_mode(1)
init_set ==
    /\ MainFrame
    /\ pc = "start"
    /\ req = MainCall("init_set", "bound")
    /\ pc' = "set_mode"
    /\ UNCHANGED <<result, status, polls, calls, ret, frame>>

\* homing: sendCommand(enableOperation_array); set_mode(6)
homing ==
    /\ MainFrame
    /\ pc = "start"
    /\ req = MainCall("homing", "bound")
    /\ Sends(enableOperation_array)
    /\ \E r \in {Received(enableOperation_array), TransportError} :
        IF r.kind = "error" THEN Raises
        ELSE pc' = "set_mode" /\ result' = result
    /\ UNCHANGED <<status, polls, calls, ret>>

\* the peer sends nothing: s.recv(24) on a socket without a timeout
NoAnswer == [kind |-> "silence", bytes |-> << >>]

\* main_programm, when the stop input is set: sendCommand(stop_array).  The
\* call returns on an answer, raises on a socket error and, the socket
\* having no timeout, stays in recv when no answer comes.
stop_motion ==
    /\ MainFrame
    /\ pc = "start"
    /\ req = MainCall("stop", "bound")
    /\ Sends(stop_array)
    /\ \E r \in {Received(stop_array), TransportError, NoAnswer} :
        CASE r.kind = "error" -> Raises
          [] r.kind = "silence" -> pc' = "recv" /\ result' = result
          [] OTHER -> pc' = "done" /\ result' = "None"
    /\ UNCHANGED <<status, polls, calls, ret>>

\* set_mode(mode): one pass of  while sendCommand(request) != answer
set_mode ==
    /\ MainFrame
    /\ pc = "set_mode"
    /\ Sends(mode_request)
    /\ \E r \in MainModeReplies :
        LET mode == IF req.fn = "init_set" THEN 1 ELSE 6 IN
        IF r.kind = "error" THEN Raises /\ UNCHANGED polls
        ELSE IF sendCommand(r) = mode_answer(mode)
        THEN /\ pc' = IF req.fn = "init_set" THEN "reset" ELSE "homing_setup"
             /\ polls' = 0
             /\ result' = result
        ELSE /\ pc' = pc
             /\ polls' = NextPass
             /\ result' = result
    /\ UNCHANGED <<status, calls, ret>>

\* the telegrams sent one after the other; the k+1-th send raises (k =
\* Len(telegrams): none does)
SendsAll(telegrams, k, next) ==
    /\ Sends(telegrams[IF k < Len(telegrams) THEN k + 1 ELSE k])
    /\ IF k < Len(telegrams) THEN Raises /\ UNCHANGED calls
       ELSE pc' = next /\ calls' = 1 /\ result' = result

\* init_set: sendCommand(reset_array); set_shdn: sendCommand(reset_array),
\* sendCommand(shutdown_array)
set_shdn_send ==
    /\ MainFrame
    /\ pc = "reset"
    /\ \E k \in 0 .. 3 :
        SendsAll(<<reset_array, reset_array, shutdown_array>>, k, "set_shdn")
    /\ UNCHANGED <<status, polls, ret>>

\* set_swon: sendCommand(switchOn_array); set_op_en:
\* sendCommand(enableOperation_array)
set_command_send ==
    /\ MainFrame
    /\ pc \in {"set_swon_send", "set_op_en_send"}
    /\ \E k \in 0 .. 1 :
        IF pc = "set_swon_send" THEN SendsAll(<<switchOn_array>>, k, "set_swon")
        ELSE SendsAll(<<enableOperation_array>>, k, "set_op_en")
    /\ UNCHANGED <<status, polls, ret>>

\* set_shdn / set_swon / set_op_en: one sendCommand(status_array) of the
\* condition  a != A and b != B and c != C, each a new request; calls is the
\* place in the condition
state_wait ==
    /\ MainFrame
    /\ pc \in {"set_shdn", "set_swon", "set_op_en"}
    /\ Sends(status_array)
    /\ \E r \in MainStatusReplies :
        IF r.kind = "error" THEN Raises /\ UNCHANGED <<status, polls, calls>>
        ELSE
        /\ status' = [status EXCEPT !["y"] = StatuswordOf(sendCommand(r))]
        /\ IF sendCommand(r) = wait_answers(pc)[calls]
           THEN /\ pc' = CASE pc = "set_shdn" -> "set_swon_send"
                           [] pc = "set_swon" -> "set_op_en_send"
                           [] pc = "set_op_en" -> "done"
                /\ result' = IF pc = "set_op_en" THEN "None" ELSE result
                /\ polls' = 0
                /\ calls' = 0
           ELSE /\ pc' = pc
                /\ result' = result
                /\ calls' = IF calls < 3 THEN calls + 1 ELSE 1
                /\ polls' = IF calls < 3 THEN polls ELSE NextPass
    /\ UNCHANGED ret

\* homing: the five parameters and the start of homing
homing_setup ==
    /\ MainFrame
    /\ pc = "homing_setup"
    /\ \E k \in 0 .. Len(homing_telegrams) :
        SendsAll(homing_telegrams, k, "homing")
    /\ UNCHANGED <<status, polls, ret>>

\* homing: one sendCommand(status_array) of the loop condition (referenced,
\* or one of three fault answers)
homing_poll ==
    /\ MainFrame
    /\ pc = "homing"
    /\ calls \in 1 .. 4
    /\ Sends(status_array)
    /\ \E r \in MainStatusReplies :
        IF r.kind = "error" THEN Raises /\ UNCHANGED <<status, polls, calls>>
        ELSE
        /\ status' = [status EXCEPT !["y"] = StatuswordOf(sendCommand(r))]
        /\ IF sendCommand(r) = wait_answers(pc)[calls]
           THEN pc' = "done" /\ result' = "None" /\ calls' = 0
           ELSE pc' = pc /\ result' = result /\ calls' = calls + 1
        /\ UNCHANGED polls
    /\ UNCHANGED ret

\* homing, the body of the loop: if sendCommand(DInputs_array) == stop: break
homing_stop_button ==
    /\ MainFrame
    /\ pc = "homing"
    /\ calls = 5
    /\ Sends(DInputs_array)
    /\ \E r \in MainInputReplies :
        IF r.kind = "error" THEN Raises /\ UNCHANGED <<polls, calls, ret>>
        ELSE
        /\ ret' = LittleEndian(sendCommand(r), 19, 4)
        /\ IF sendCommand(r) = stop_answer
           THEN pc' = "done" /\ result' = "None" /\ calls' = 0 /\ UNCHANGED polls
           ELSE pc' = pc /\ result' = result /\ calls' = 1 /\ polls' = NextPass
    /\ UNCHANGED status

NextMain ==
    \/ call_unbound
    \/ stop_motion
    \/ init_set
    \/ homing
    \/ set_mode
    \/ set_shdn_send
    \/ set_command_send
    \/ state_wait
    \/ homing_setup
    \/ homing_poll
    \/ homing_stop_button

\* a wait loop that can make a pass makes it
SpecMain == InitMain /\ [][NextMain]_vars /\ WF_vars(NextMain)

----------------------------------------------------------------------------
(* Properties of the codec: exceptions, failure causes, payload, writes *)

\* the response carries a function code with bit 7 set
IsExceptionResponse(r) ==
    r.kind = "bytes" /\ Len(r.bytes) >= 8 /\ BitAnd(At(r.bytes, 7), \h80) # 0

\* why a call failed, as the peer made it fail ("ok": it did not)
Cause(q, r) ==
    IF r.kind = "error" THEN "transport"
    ELSE IF IsExceptionResponse(r) THEN "exception"
    ELSE IF q.fn \in WriteFunctions
         THEN (IF Len(r.bytes) < 8 THEN "short" ELSE "ok")
    ELSE IF Len(r.bytes) < 19 + q.size THEN "short" ELSE "ok"

\* what the caller of q gets back when the transport gives r
CallResult(q, r) ==
    CASE q.fn = "read_statusword" -> read_statusword(r)
      [] q.fn = "v6_read_statusword" -> v6_read_statusword(r)
      [] q.fn = "read_object" -> read_object(r, q.size)
      [] q.fn = "v9_read_object" -> v9_read_object(TRUE, r)
      [] q.fn = "write_controlword" -> write_controlword(r)
      [] q.fn = "write_object" -> d2_write_object(r)
      [] q.fn = "v9_write_object" ->
            (v9_size_supported(q.size) /\ v9_write_object(TRUE, r))

\* C11: a read whose response has bit 7 of the function-code byte (offset 7)
\* set is reported as a protocol exception and never as a payload value, also
\* when the response has 19 + size bytes or more.  (Only v9 looks at the
\* function code, and only in responses of 21 bytes or more: violated.)
C11_ExceptionNeverPayload ==
    (/\ script = "codec"
     /\ pc = "returned"
     /\ req.fn \notin WriteFunctions
     /\ IsExceptionResponse(resp))
    => /\ ret = None
       /\ msg = "Modbus error code"

\* C12: the result a caller gets tells the failure causes apart: a short
\* response, an exception response and a transport failure never give the
\* same result.  (Every read returns None and every write False for all of
\* them: violated.)
C12_FailureCausesDistinct ==
    (/\ script = "codec"
     /\ pc = "returned"
     /\ Cause(req, resp) # "ok")
    => \A r2 \in (IF req.fn \in WriteFunctions THEN WriteRepliesFor(req)
                  ELSE RepliesFor(req)) :
           Cause(req, r2) \notin {"ok", Cause(req, resp)}
               => CallResult(req, r2) # CallResult(req, resp)

\* C13: a read of an n-byte object whose response is a non-exception response
\* of at least 19 + n bytes returns exactly the n bytes at offsets 19 ..
\* 19+n-1, little-endian; a four-byte object such as ActualPosition (0x6064)
\* comes back with all four bytes.  (v9 read_object unpacks two bytes of
\* every object: violated.)
C13_PayloadIsLittleEndianAtOffset19 ==
    (/\ script = "codec"
     /\ pc = "returned"
     /\ req.fn \notin WriteFunctions
     /\ resp.kind = "bytes"
     /\ ~IsExceptionResponse(resp)
     /\ Len(resp.bytes) >= 19 + ObjectSize(req.index))
    => ret = LittleEndian(resp.bytes, 19, ObjectSize(req.index))

\* C14: when the peer answers a write frame with an echo of the frame (a
\* non-exception response with function code 0x2B), the write reports
\* success and yields no payload value.
C14_EchoedWriteSucceeds ==
    (/\ script = "codec"
     /\ pc = "returned"
     /\ req.fn \in WriteFunctions
     /\ resp = Received(EchoOf(req)))
    => /\ result = "True"
       /\ ret = None

\* v9 wrote the jog distance -10 as four bytes and got the frame echoed
C14_Witness ==
    /\ script = "codec"
    /\ pc = "returned"
    /\ req = WriteRequest("v9_write_object", \h607A, 0, 4, -10)
    /\ resp = Received(EchoOf(req))
    /\ SubSeq(resp.bytes, 20, 23) = <<246, 255, 255, 255>>
    /\ result = "True"

\* C15: a write, a controlword write included, reports success only if the
\* response is a non-exception response that is long enough; an exception
\* response or a too short (for example empty) one gives failure.  (diag2.py
\* write_controlword does not look at the response: violated.)
C15_WriteSuccessNeedsGoodResponse ==
    (/\ script = "codec"
     /\ pc = "returned"
     /\ req.fn \in WriteFunctions
     /\ result = "True")
    => /\ resp.kind = "bytes"
       /\ Len(resp.bytes) >= 8
       /\ ~IsExceptionResponse(resp)


----------------------------------------------------------------------------
(* Properties of the request frames *)

\* the frame the latest call put on the wire (empty: it sent none)
SentFrame == frame[req.client]

FrameSent == pc = "client" /\ calls > 0 /\ SentFrame # << >>

\* a 16-bit big-endian field at offset off
Field16(bytes, off) == 256 * At(bytes, off) + At(bytes, off + 1)

\* C16: the length field of a frame (bytes 4-5, big-endian) is 13 in a read
\* frame and 13 + size in a write frame, and it is the number of bytes that
\* follow it: a read frame has 19 bytes, a write frame 19 + size.
C16_LengthFieldCountsFollowingBytes ==
    FrameSent =>
        /\ Field16(SentFrame, 4) = Len(SentFrame) - 6
        /\ req.fn \in {"read_object", "read_statusword"}
               => Field16(SentFrame, 4) = 13 /\ Len(SentFrame) = 19
        /\ req.fn = "write_object"
               => /\ Field16(SentFrame, 4) = 13 + req.size
                  /\ Len(SentFrame) = 19 + req.size

\* v9 sent a four-byte write: 23 bytes, length field 17
C16_Witness ==
    /\ FrameSent
    /\ script = "v9"
    /\ req.fn = "write_object"
    /\ req.size = 4
    /\ Len(SentFrame) = 23
    /\ SubSeq(SentFrame, 5, 6) = <<0, 17>>

\* C17: the payload of a write frame of size n is exactly n bytes, the value
\* modulo 2^(8n) in little-endian order, for negative values and values of
\* 2^(8n) or more as well; the object index is big-endian at bytes 12-13.
\* (The four-byte case is stated on the low three bytes and the top byte,
\* which is the same number modulo 2^32.)
C17_PayloadIsValueModuloSize ==
    (FrameSent /\ req.fn = "write_object") =>
        /\ Len(SentFrame) = 19 + req.size
        /\ \A i \in 19 .. (18 + req.size) : At(SentFrame, i) \in 0 .. 255
        /\ IF req.size <= 3
           THEN LittleEndian(SentFrame, 19, req.size)
                    = req.value % Pow2(8 * req.size)
           ELSE /\ LittleEndian(SentFrame, 19, 3) = req.value % Pow2(24)
                /\ At(SentFrame, 22) = (req.value \div Pow2(24)) % 256
        /\ Field16(SentFrame, 12) = req.index

\* 70000 written as two bytes goes out as 70000 mod 65536 = 0x1170
C17_Witness ==
    /\ FrameSent
    /\ req.fn = "write_object"
    /\ req.value = 70000
    /\ req.size = 2
    /\ SubSeq(SentFrame, 13, 14) = <<\h60, \h7A>>
    /\ SubSeq(SentFrame, 20, 21) = <<\h70, \h11>>

\* C18: a read or write whose size is none of 1, 2, 4 fails with an
\* invalid-size error and no frame is sent.  (Only write_object of v9 looks
\* at the size: violated.)
C18_UnsupportedSizeSendsNothing ==
    (pc = "client" /\ calls > 0 /\ req.size \notin {1, 2, 4}) =>
        /\ SentFrame = << >>
        /\ msg = "Unsupported data size"

\* C19: the calls of one client carry consecutive transaction identifiers in
\* bytes 0-1, big-endian, modulo 65536, reads and writes counted together:
\* the frame of a call has the identifier of the client's frame before it,
\* plus one.  (diag2.py sends 0x000F in every frame: violated.)
C19_TransactionIdsCount ==
    [][(pc = "client" /\ calls' = calls + 1)
         => LET c == req'.client IN
            (frame[c] # << >> /\ frame'[c] # << >>)
                => Field16(frame'[c], 0) = (Field16(frame[c], 0) + 1) % 65536]_vars


----------------------------------------------------------------------------
(* Properties of the bring-up that starts from the state it finds *)

\* the step wrote the controlword cw
WritesControlword(cw) ==
    \E i \in (Len(log) + 1) .. Len(log') :
        IsControlwordWrite(log'[i]) /\ log'[i].value = cw

\* C20: the fault reset 0x0080 is written only when the statusword read just
\* before classified as Fault, and before any other controlword; the enable
\* chain goes on only if the statusword read after the reset classifies as
\* SwitchOnDisabled, otherwise bring-up returns failure and writes no further
\* controlword.  (When the read after the reset fails, diag2.py does not
\* return: None & 0x004F raises TypeError.  Violated.)
C20_FaultResetOnlyFromFault ==
    [][/\ WritesControlword(\h0080)
          => /\ status["y"] # None
             /\ decode_statusword(status["y"]) = STATE_FAULT
             /\ Last(log) = ReadEv("y", \h6041, 0)
             /\ ControlwordsOf(log, "y") = << >>
       /\ pc = "fault_reset"
          => IF status'["y"] # None
                /\ decode_statusword(status'["y"]) = STATE_SWITCH_ON_DISABLED
             THEN pc' = "shutdown"
             ELSE /\ pc' = "done"
                  /\ result' = "False"
                  /\ ControlwordsOf(log', "y") = <<\h0080>>]_vars


\* C21: started with the drive in NotReadyToSwitchOn, bring-up writes no
\* controlword until it has read a statusword that classifies as
\* SwitchOnDisabled, and if it never reads one it returns failure without a
\* controlword written.  (go_through_state_machine of unit_test2.py writes
\* 0x0006 right after its first read, whatever that read showed: violated.)
C21_NotReadyWaitsForSwitchOnDisabled ==
    (/\ script \in GsmScripts
     /\ Len(seen) >= 1
     /\ seen[1] # None
     /\ decode_statusword(seen[1]) = STATE_NOT_READY
     /\ \A i \in 1 .. Len(seen) :
            seen[i] = None
            \/ decode_statusword(seen[i]) # STATE_SWITCH_ON_DISABLED)
    => /\ ControlwordsOf(log, "y") = << >>
       /\ (pc = "done" => result = "False")


\* C23: when a statusword read fails anywhere inside bring-up (the read after
\* the fault reset, a read of the NotReady wait, the read after a controlword
\* included), bring-up returns failure to its caller and never ends with an
\* error nobody handles.  (diag2.py evaluates None & mask after such a read:
\* TypeError; unit_test2.py overwrites a failed read with the next: violated.)
C23_FailedReadReturnsFailure ==
    (script \in BringUpScripts \cup StateAwareScripts /\ pc = "done") =>
        /\ result \in {"True", "False"}
        /\ (\E i \in 1 .. Len(seen) : seen[i] = None) => result = "False"

----------------------------------------------------------------------------
(* Properties of main.py *)

HomingPolled ==
    script = "main" /\ pc = "homing" /\ calls \in 1 .. 4 /\ result' # "ConnectionError"

\* the statusword st ends homing without completing it
AbortsHoming(st) ==
    st # None /\ decode_statusword(st) \in {STATE_FAULT, STATE_SWITCH_ON_DISABLED}

\* the statusword st shows a finished homing run
HomingComplete(st) ==
    /\ st # None
    /\ decode_statusword(st) = STATE_OPERATION_ENABLED
    /\ (BitAnd(st, \h0400) # 0 \/ BitAnd(st, \h1000) # 0)

----------------------------------------------------------------------------
(* SpecWire: the calls of one client on its one connection, send and        *)
(* receive told apart.  pyqt5_wire is the panel of archive/pyqt5_test.py    *)
(* (status timer and controlword buttons on the gateway's socket),          *)
(* diag2_wire the polling loop of test_simple_movement of diag2.py          *)
(* (read_statusword, then read_object(0x6064), on the socket of             *)
(* create_connection).  Here seen holds the bytes that wait in the          *)
(* socket, polls counts the sock.recv calls made and faultAt the frames of  *)
(* log the peer has answered.                                               *)

WireScripts == {"pyqt5_wire", "diag2_wire"}

\* calls in one run
MaxWire == 3

InitWire ==
    /\ script \in WireScripts
    /\ pc = "idle"
    /\ BehaviourIdle
    /\ ClassifyIdle
    /\ FrameIdle
    /\ CodecIdle

\* what no step on the wire changes
WireFrame ==
    /\ UNCHANGED <<script, status, done2, msg>>
    /\ UNCHANGED classifyVars
    /\ UNCHANGED frameVars

\* a plausible slip: handlers started on worker threads, so that one can
\* start while another waits in sock.recv
handler_reentered == TRUE

\* Qt runs a handler to its end before it dispatches the next event, and a
\* script makes its next call when the last one has returned
handler_returned == pc = "idle"

\* the start of read_object / write_object: sock.send(packet), which may
\* raise (the call then returns None / False without a receive)
wire_send(r) ==
    /\ calls < MaxWire
    /\ calls' = calls + 1
    /\ req' = r
    /\ \E sent \in BOOLEAN :
        IF sent
        THEN /\ log' = Append(log, IF r.fn = "read_object"
                                    THEN ReadEv("y", r.index, r.sub)
                                    ELSE WriteEv("y", r.index, r.sub, r.value))
             /\ pc' = "recv"
             /\ UNCHANGED <<resp, ret, result>>
        ELSE /\ log' = log
             /\ pc' = "idle"
             /\ resp' = TransportError
             /\ ret' = IF r.fn = "read_object" THEN None ELSE ret
             /\ result' = IF r.fn = "read_object" THEN result ELSE "False"
    /\ UNCHANGED <<seen, polls, faultAt>>
    /\ WireFrame

\* update_status, on the timer: self.gateway.read_statusword()
wire_update_status ==
    /\ script = "pyqt5_wire"
    /\ handler_returned
    /\ wire_send(FrameRequest("read_object", "y", \h6041, 0, 2, 0))

\* a controlword button: self.gateway.write_controlword(value)
wire_controlword_btn ==
    /\ script = "pyqt5_wire"
    /\ handler_returned
    /\ \E btn \in DOMAIN ButtonControlword :
        wire_send(FrameRequest("write_object", "y", \h6040, 0, 2,
                               ButtonControlword[btn]))

\* the polling loop of diag2.py: read_statusword; when it returned a
\* statusword in OperationEnabled without bit 10, read_object(0x6064, 0, 4),
\* and then the next pass
d2_poll_call ==
    /\ script = "diag2_wire"
    /\ handler_returned
    /\ IF /\ req.index = \h6041
          /\ ret # None
          /\ BitAnd(ret, \h0400) = 0
          /\ BitAnd(ret, \h006F) = \h0027
       THEN wire_send(FrameRequest("read_object", "y", \h6064, 0, 4, 0))
       ELSE wire_send(FrameRequest("read_object", "y", \h6041, 0, 2, 0))

\* what the drive answers to the frame of event e
WirePeerReplies(e) ==
    IF e.op = "write" THEN {WriteAck(e.index, e.sub, 2)}
    ELSE IF e.index = \h6041
         THEN {ReadReply(\h6041, 0, 2, s) : s \in {\h0027, \h0008}}
         ELSE {ReadReply(e.index, 0, 4, v) : v \in {1000, \h0427}}

\* the drive answers the oldest frame it has not answered yet, whenever it
\* gets to it: the answer joins the bytes that wait in the socket
peer_reply ==
    /\ script \in WireScripts
    /\ faultAt < Len(log)
    /\ \E bytes \in WirePeerReplies(log[faultAt + 1]) : seen' = seen \o bytes
    /\ faultAt' = faultAt + 1
    /\ UNCHANGED <<pc, req, resp, ret, result, log, polls, calls>>
    /\ WireFrame

\* response = sock.recv(1024): the bytes that wait, or socket.timeout after
\* five seconds without any; then the rest of read_object / write_object
wire_recv ==
    /\ script \in WireScripts
    /\ pc = "recv"
    /\ polls' = polls + 1
    /\ resp' = IF seen # << >> THEN Received(seen) ELSE TransportError
    /\ seen' = << >>
    /\ ret' = IF req.fn = "read_object" THEN read_object(resp', req.size) ELSE ret
    /\ result' = IF req.fn = "read_object" THEN result
                 ELSE BoolText(gw_write_object(TRUE, resp'))
    /\ pc' = "idle"
    /\ UNCHANGED <<req, log, calls, faultAt>>
    /\ WireFrame

NextWire ==
    \/ wire_update_status
    \/ wire_controlword_btn
    \/ d2_poll_call
    \/ peer_reply
    \/ wire_recv

SpecWire == InitWire /\ [][NextWire]_vars

----------------------------------------------------------------------------
(* Properties of the connection *)

\* C33: on one connection every operation is one blocking round trip: a read
\* or write call sends one frame and then performs at most one receive, and
\* no frame is sent while an earlier call's receive is pending, also when the
\* status timer and a button handler share the connection.
C33_OneRoundTripAtATime ==
    [][(script \in WireScripts) =>
           (/\ (pc = "recv" => log' = log)
            /\ (log' # log => (Len(log') = Len(log) + 1 /\ calls' = calls + 1))
            /\ (polls' # polls =>
                   (polls' = polls + 1 /\ pc = "recv" /\ pc' = "idle"))
            /\ Len(log') <= calls'
            /\ polls' <= Len(log'))]_vars

\* the timer's read and then a button's write, each sent and received
C33_Witness ==
    /\ script = "pyqt5_wire"
    /\ pc = "idle"
    /\ calls = 2
    /\ polls = 2
    /\ Len(log) = 2
    /\ log[1].op = "read"
    /\ log[2].op = "write"

\* the object the response r says it carries
AnsweredIndex(r) == 256 * At(r.bytes, 12) + At(r.bytes, 13)

\* C38: on a persistent connection the value a read returns is taken from the
\* response to that same call's request: after a call ended with a receive
\* timeout, a late reply to it is never returned as the result of a later
\* read of a different object.  (No reader looks at what a response answers:
\* violated.)
C38_ReadReturnsItsOwnReply ==
    (script \in WireScripts /\ pc = "idle" /\ req.fn = "read_object" /\ ret # None) =>
        /\ resp.kind = "bytes"
        /\ AnsweredIndex(resp) = req.index

----------------------------------------------------------------------------
(* Properties of the two classifiers *)

\* the state a text of the panel's state label names (the panel has two
\* further texts, which name none of the seven states)
DisplayedState(text) ==
    CASE text = "Not ready to switch on" -> STATE_NOT_READY
      [] text = "Switch on disabled" -> STATE_SWITCH_ON_DISABLED
      [] text = "Ready to switch on" -> STATE_READY_TO_SWITCH_ON
      [] text = "Switched on" -> STATE_SWITCHED_ON
      [] text = "Operation enabled" -> STATE_OPERATION_ENABLED
      [] text = "Fault" -> STATE_FAULT
      [] text = "Unknown" -> STATE_UNKNOWN
      [] OTHER -> None

\* C34: for every 16-bit statusword s with (s & 0x004F) = 0x0008, bit 5 set
\* or clear, decode_statusword and the panel's update_state_display both
\* report Fault, and for every s the priority rule maps to one of the six
\* named states the two classifiers name the same state.
C34_ClassifiersAgree ==
    (script = "classify" /\ pc = "displayed") =>
        /\ (BitAnd(sw, \h004F) = \h0008 =>
                (cls = STATE_FAULT /\ DisplayedState(msg) = STATE_FAULT))
        /\ (PriorityRule(sw) # STATE_UNKNOWN => DisplayedState(msg) = cls)
----------------------------------------------------------------------------
(* Properties of the enable chain *)

\* the state in which the drive accepts the command of a block
CommandState(p) ==
    CASE p = "shutdown" -> STATE_SWITCH_ON_DISABLED
      [] p = "switch_on" -> STATE_READY_TO_SWITCH_ON
      [] p = "enable_operation" -> STATE_SWITCHED_ON

\* C35: every controlword of the enable chain is gated on the statusword
\* read last: 0x0006 is written only if it classifies as SwitchOnDisabled,
\* 0x0007 only if ReadyToSwitchOn, 0x000F only if SwitchedOn (so none is
\* written from OperationEnabled or from Unknown).
C35_EnableChainGated ==
    [][(/\ script \in {"unit_test", "v9"}
        /\ pc \in {"shutdown", "switch_on", "enable_operation"}
        /\ pc' # pc) =>
           (/\ status["y"] # None
            /\ decode_statusword(status["y"]) = CommandState(pc))]_vars

\* the place in l of the last controlword write (0: none), and the number of
\* statusword reads that follow it
LastCommandAt(l) ==
    LET at == {i \in 1 .. Len(l) : IsControlwordWrite(l[i])} IN
    IF at = {} THEN 0 ELSE CHOOSE i \in at : \A j \in at : j <= i

PollsAfterCommand(l) ==
    Cardinality({i \in (LastCommandAt(l) + 1) .. Len(l) : IsStatuswordRead(l[i])})

\* C36: a drive that shows the state a command aims at not on the first
\* statusword poll after the command but on a later one still lets the
\* bring-up advance: the bring-up gives a transition up (returns False) only
\* after polling the statusword more than once since the command.
C36_FailsOnlyAfterSeveralPolls ==
    (/\ script \in StateAwareScripts
     /\ pc = "done"
     /\ result = "False"
     /\ LastCommandAt(log) > 0) =>
        PollsAfterCommand(log) >= 2
----------------------------------------------------------------------------
(* Properties of the start bit at the end of a movement sequence *)

\* the first controlword write to axis ax after place i of l exists and has
\* bit 4 cleared
NextControlwordClears(l, i, ax) ==
    \E j \in (i + 1) .. Len(l) :
        /\ IsControlwordWrite(l[j]) /\ l[j].ax = ax
        /\ ~HasStartBit(l[j])
        /\ \A k \in (i + 1) .. (j - 1) :
               ~(IsControlwordWrite(l[k]) /\ l[k].ax = ax)

----------------------------------------------------------------------------
(* SpecAux: the handlers of RobotAuxiliaryUI, in the two versions of the    *)
(* auxiliary panel (.ipynb_checkpoints/NewTest-checkpoint.py and            *)
(* auxtest-checkpoint.py).  Qt runs each handler to its end before the next. *)
(* status holds the object's state variables, log the hardware calls made,  *)
(* req the handler run last and whether the name setRelayCh is bound.       *)
(* auxtest-checkpoint.py imports libioplus and calls setRelayCh unqualified: *)
(* as the file stands the name is unbound and every call raises NameError;   *)
(* "bound" is the file with the name taken from libioplus.                  *)

\* auxiliaries of NewTest-checkpoint.py in one run (the source has 8)
AuxCount == 3

\* handler invocations in one run
MaxAuxCalls == 4

AuxScripts == {"NewTest", "auxtest"}

\* aux_states keys of NewTest; air in, air out, laser of auxtest (relay
\* channels 1, 2, 3)
AuxNumbers == IF script = "NewTest" THEN 1 .. AuxCount ELSE 1 .. 3

AuxCall(fn, names) == [fn |-> fn, names |-> names]

HardwareCall(op, a, v) == [op |-> op, ax |-> a, value |-> v]

InitAux ==
    /\ script \in AuxScripts
    /\ pc = "shown"
    /\ status = [aux_states |-> [a \in AuxNumbers |-> FALSE],
                 disco_mode_active |-> FALSE,
                 disco_timer |-> FALSE]
    /\ req \in {AuxCall("__init__", names) :
                   names \in (IF script = "auxtest" THEN {"unbound", "bound"}
                              ELSE {"bound"})}
    /\ result = "none" /\ log = << >> /\ calls = 0
    /\ seen = << >> /\ polls = 0 /\ done2 = FALSE /\ faultAt = 0
    /\ resp = TransportError /\ ret = None /\ msg = ""
    /\ ClassifyIdle
    /\ FrameIdle

\* what a handler of the panel leaves alone, and the count of handlers run
AuxFrame(fn) ==
    /\ script \in AuxScripts
    /\ pc = "shown"
    /\ calls < MaxAuxCalls
    /\ calls' = calls + 1
    /\ req' = AuxCall(fn, req.names)
    /\ UNCHANGED <<script, seen, polls, done2, faultAt, resp, ret, msg>>
    /\ UNCHANGED classifyVars
    /\ UNCHANGED frameVars

\* the value activate_* / deactivate_* of auxtest hand to setRelayCh(0, ch, v):
\* deactivate_vacuum writes 1
RelayCommand(ch, checked) ==
    IF checked THEN 1 ELSE IF ch = 2 THEN 1 ELSE 0

\* the hardware calls a toggle of auxiliary a makes: control_*(state) of
\* NewTest, setRelayCh of auxtest (none is made when the name is unbound)
HardwareCalls(a, checked) ==
    IF script = "NewTest"
    THEN <<HardwareCall("control", a, IF checked THEN 1 ELSE 0)>>
    ELSE IF req.names = "bound"
    THEN <<HardwareCall("setRelayCh", a, RelayCommand(a, checked))>>
    ELSE << >>

\* how a handler that called a hardware function ends: NameError when the
\* name is unbound, which PyQt5 prints or answers by aborting the process
HardwareOutcome ==
    IF script = "auxtest" /\ req.names = "unbound"
    THEN result' = "NameError" /\ pc' \in {"shown", "aborted"}
    ELSE result' = "returned" /\ pc' = pc

\* toggle_auxiliary(aux_num, checked) of NewTest; toggle_air_in,
\* toggle_air_out, toggle_laser of auxtest: the state variable, then the
\* hardware function
toggle_auxiliary ==
    /\ AuxFrame("toggle_auxiliary")
    /\ \E a \in AuxNumbers :
        LET checked == ~status.aux_states[a] IN
        /\ status' = [status EXCEPT !.aux_states[a] = checked]
        /\ log' = log \o HardwareCalls(a, checked)
    /\ HardwareOutcome

\* toggle_disco_mode(checked): the flag, and the timer started or stopped
toggle_disco_mode ==
    /\ AuxFrame("toggle_disco_mode")
    /\ LET checked == ~status.disco_mode_active IN
       status' = [status EXCEPT !.disco_mode_active = checked,
                                !.disco_timer = checked]
    /\ result' = "returned"
    /\ UNCHANGED <<pc, log>>

\* disco_timer.timeout: disco_step calls rotate_stepper(1)
disco_step ==
    /\ AuxFrame("disco_step")
    /\ status.disco_timer
    /\ log' = Append(log, HardwareCall("rotate_stepper", 0, 1))
    /\ result' = "returned"
    /\ UNCHANGED <<pc, status>>

\* rotate_plus_5 / rotate_minus_5 (the two buttons are disabled while disco
\* mode is on, and the handlers return at once if it is)
rotate_5 ==
    /\ AuxFrame("rotate_5")
    /\ ~status.disco_mode_active
    /\ \E degrees \in {5, -5} :
        log' = Append(log, HardwareCall("rotate_stepper", 0, degrees))
    /\ result' = "returned"
    /\ UNCHANGED <<pc, status>>

\* the toggles emergency_stop causes, auxiliary by auxiliary in ascending
\* order: one hardware call for each auxiliary that is on
RECURSIVE Deactivations(_)
Deactivations(a) ==
    IF a \notin AuxNumbers THEN << >>
    ELSE (IF status.aux_states[a] THEN HardwareCalls(a, FALSE) ELSE << >>)
         \o Deactivations(a + 1)

\* emergency_stop.  NewTest: every auxiliary that is on is toggled off; the
\* disco flag and timer are not touched.  auxtest: setChecked(False) on the
\* four buttons (a checked one runs its toggle), then deactivate_air_supply,
\* deactivate_vacuum, deactivate_laser and disco_timer.stop(); with the name
\* unbound the first deactivate_* raises.
emergency_stop ==
    /\ log' = log \o Deactivations(1)
                  \o (IF script = "auxtest"
                      THEN HardwareCalls(1, FALSE) \o HardwareCalls(2, FALSE)
                           \o HardwareCalls(3, FALSE)
                      ELSE << >>)
    /\ status' =
         [aux_states |-> [a \in AuxNumbers |-> FALSE],
          disco_mode_active |->
              IF script = "auxtest" THEN FALSE ELSE status.disco_mode_active,
          disco_timer |->
              IF script = "auxtest" THEN FALSE ELSE status.disco_timer]

\* the emergency button of NewTest (auxtest connects none)
emergency_button ==
    /\ AuxFrame("emergency_stop")
    /\ script = "NewTest"
    /\ emergency_stop
    /\ result' = "returned"
    /\ pc' = pc

\* closeEvent: emergency_stop, event.accept(); the window was the last one
\* and the application ends
closeEvent ==
    /\ AuxFrame("closeEvent")
    /\ emergency_stop
    /\ IF script = "auxtest" /\ req.names = "unbound"
       THEN result' = "NameError" /\ pc' \in {"closed", "aborted"}
       ELSE result' = "returned" /\ pc' = "closed"

NextAux ==
    \/ toggle_auxiliary
    \/ toggle_disco_mode
    \/ disco_step
    \/ rotate_5
    \/ emergency_button
    \/ closeEvent

SpecAux == InitAux /\ [][NextAux]_vars
----------------------------------------------------------------------------
(* Properties of the auxiliary panel *)

\* the value of the last hardware call of l made for auxiliary a (None: no
\* call was made for it); for setRelayCh this is the level of the relay
LastCallValue(l, a) ==
    LET at == {i \in 1 .. Len(l) : l[i].op # "rotate_stepper" /\ l[i].ax = a} IN
    IF at = {} THEN None
    ELSE l[CHOOSE i \in at : \A j \in at : j <= i].value

\* C39: after emergency_stop has returned, run by the emergency button or
\* by closing the window, every auxiliary state is False and the last
\* hardware call made for each auxiliary is a deactivation, and, the
\* application still running, disco mode is inactive and its step timer
\* stopped (so that no disco step rotates the stepper any more).
C39_NothingActiveAfterEmergencyStop ==
    (/\ script \in AuxScripts
     /\ req.fn \in {"emergency_stop", "closeEvent"}
     /\ result = "returned") =>
        /\ \A a \in AuxNumbers :
              /\ ~status.aux_states[a]
              /\ LastCallValue(log, a) \in {None, 0}
        /\ pc = "shown" =>
              (~status.disco_mode_active /\ ~status.disco_timer)

\* C40: for air supply, vacuum and laser (relay channels 1, 2, 3) the relay
\* follows the request: a channel toggled on is at 1, and a channel that was
\* commanded at all is at 1 if its auxiliary is on and at 0 if it is off,
\* after any sequence of toggles and after emergency_stop.
C40_RelayMatchesRequest ==
    (script = "auxtest" /\ pc # "aborted") =>
        \A ch \in AuxNumbers :
            /\ status.aux_states[ch] => LastCallValue(log, ch) = 1
            /\ LastCallValue(log, ch) # None =>
                  LastCallValue(log, ch) = (IF status.aux_states[ch] THEN 1 ELSE 0)
====
